---- MODULE Spec2Model ----
(***************************************************************************)
(* A model of the SOS (SKA Observation Simulator) package: the cosmology   *)
(* calculator and the source-model entry point of sos/core/image_maker.py, *)
(* the sexagesimal coordinate codec of sos/utils/coordinates.py and the    *)
(* validators of sos/utils/validators.py.                                  *)
(*                                                                         *)
(* The package is a library of functions called one at a time.  A state    *)
(* of the model is the calculator object under test together with the     *)
(* record of the last call made: the function called (op), its arguments   *)
(* (args) and its outcome (result), which is either a returned value or   *)
(* the exception raised.                                                   *)
(*                                                                         *)
(* Numbers.  A Python float or int x of the cosmology and validation code  *)
(* is the integer x * Milli (0.05 is 50, -1.6 is -1600).  An angle given   *)
(* to the coordinate encoders is an integer number of ticks, TicksPerArcsec*)
(* ticks to the arcsecond.  Arithmetic on these is exact rational          *)
(* arithmetic: the rounding error of binary floating point is not          *)
(* modelled.  A Python str is the sequence of its characters.              *)
(***************************************************************************)
EXTENDS Integers, Sequences, FiniteSets, TLC

VARIABLES
    cosmology,  \* the CosmologyCalculator under test: its instance attributes
    loader,     \* the ConfigLoader the caller holds (NoLoader before one is built)
    loggers,    \* the loggers of the logging module, by name: level and handlers
    op,         \* the function called last ("none" before the first call)
    args,       \* the arguments of that call
    result      \* its outcome: Return(value) or Raise(exception)

vars == <<cosmology, loader, loggers, op, args, result>>

Milli == 10 ^ 3

\* How a call ends.
Return(v) == [kind |-> "return", val |-> v]
Raise(e) == [kind |-> "raise", exc |-> e]

Returned(r) == r.kind = "return"
Raised(r, e) == r.kind = "raise" /\ r.exc = e

----------------------------------------------------------------------------
(* Python values whose type matters to the code (isinstance, str()).  v is *)
(* the value times Milli; nan marks float('nan'), whose every comparison   *)
(* is false.                                                               *)

PyFloat(m) == [t |-> "float", v |-> m, nan |-> FALSE]
PyInt(n) == [t |-> "int", v |-> n * Milli, nan |-> FALSE]
PyBool(b) == [t |-> "bool", v |-> IF b THEN Milli ELSE 0, nan |-> FALSE]
PyNaN == [t |-> "float", v |-> 0, nan |-> TRUE]
PyStr == [t |-> "str", v |-> 0, nan |-> FALSE]
PyNone == [t |-> "NoneType", v |-> 0, nan |-> FALSE]

\* isinstance(x, (int, float)): bool is a subclass of int.
IsIntOrFloat(x) == x.t \in {"int", "float", "bool"}

\* lo <= x <= hi for a number x and bounds lo, hi (Milli units).
PyBetween(lo, x, hi) == ~x.nan /\ lo <= x.v /\ x.v <= hi

\* A Python container of values: a list, or something that is not a list.
PyList(items) == [t |-> "list", items |-> items]
PyTuple(items) == [t |-> "tuple", items |-> items]

\* A str whose characters matter, and a dict: a function from its keys
\* (strings) to its values.
PyStrLit(s) == [t |-> "str", s |-> s]
PyDict(items) == [t |-> "dict", items |-> items]

\* bool(x): None, zero, and the empty str, list and dict are false.
PyTruthy(x) ==
    IF x.t = "NoneType" THEN FALSE
    ELSE IF x.t \in {"list", "tuple"} THEN Len(x.items) > 0
    ELSE IF x.t = "dict" THEN DOMAIN x.items # {}
    ELSE IF x.t = "str" THEN ("s" \notin DOMAIN x) \/ Len(x.s) > 0
    ELSE x.nan \/ x.v # 0

----------------------------------------------------------------------------
(* Program constants (sos/constants.py), in Milli units where fractional.  *)

SPEED_OF_LIGHT_KM_S == 299792
HUBBLE_CONSTANT == 67800
MATTER_DENSITY_PARAMETER == 308
ARCMIN_PER_RADIAN == 3437750
RA_ARCSEC_PER_SECOND == 15
MIN_REDSHIFT == 0
MAX_REDSHIFT == 10 * Milli
MIN_SPECTRAL_INDEX == -5 * Milli
MAX_SPECTRAL_INDEX == 0
MIN_FLUX_DENSITY_JY == 0
MAX_FLUX_DENSITY_JY == (10 ^ 6) * Milli

\* The default redshift list (create_default_config, make_img.py).
DEFAULT_REDSHIFTS == <<50, 100, 130, 150, 170, 200, 300, 400, 500, 600, 800, 900, 1000>>

----------------------------------------------------------------------------
(* Fixed-point arithmetic on Milli-scaled numbers, kept within 32 bits: a   *)
(* coarse stand-in for the float arithmetic of the cosmology formulas.     *)

FixMul(a, b) == (a \div Milli) * b + ((a % Milli) * b) \div Milli

FixDiv(a, b) ==
    LET q == a \div b
        r == a % b
    IN  q * Milli + (IF b < 2 * 10 ^ 6 THEN (r * Milli) \div b ELSE r \div (b \div Milli))

RECURSIVE SqrtIter(_, _)
SqrtIter(n, x) ==
    LET y == (x + n \div x) \div 2
    IN  IF y >= x THEN x ELSE SqrtIter(n, y)

\* The square root of a Milli-scaled number, Milli-scaled.
FixSqrt(a) == IF a <= 0 THEN 0 ELSE SqrtIter(a * Milli, a * Milli)

RECURSIVE FixIntPow(_, _)
FixIntPow(x, n) == IF n = 0 THEN Milli ELSE FixMul(FixIntPow(x, n - 1), x)

\* x ** a for x > 0: the whole part of the exponent by repeated
\* multiplication, its fractional part by linear interpolation.
FixPowPos(x, a) == FixMul(FixIntPow(x, a \div Milli), Milli + FixMul(a % Milli, x - Milli))

FixPow(x, a) == IF a >= 0 THEN FixPowPos(x, a) ELSE FixDiv(Milli, FixPowPos(x, -a))

----------------------------------------------------------------------------
(* CosmologyCalculator (sos/core/image_maker.py).                          *)

\* __init__ sets exactly the attributes h0 and omega_m.
CosmologyCalculator(h0, omega_m) == [h0 |-> h0, omega_m |-> omega_m]

HasAttr(self, name) == name \in DOMAIN self

\* The closed form of lines 60-70, given the three parameters it reads.
ClosedFormDistance(h0, omega_m, omega_l, redshift) ==
    LET omz == FixMul(omega_m, redshift)
        numerator == SPEED_OF_LIGHT_KM_S * 2 *
                     (omz + FixMul(omega_l - 2 * Milli, FixSqrt(Milli + omz) - Milli))
        base == FixMul(omega_m, Milli + redshift)
        denominator == FixMul(h0, FixMul(base, base))
    IN  IF denominator = 0
        THEN Raise("ZeroDivisionError")
        ELSE Return(FixDiv(numerator, denominator))

\* angular_diameter_distance without its z = 0 case: the general formula is
\* evaluated for every redshift.
angular_diameter_distance_NoZeroCase(self, redshift) ==
    IF ~HasAttr(self, "omega_l")
    THEN Raise("AttributeError")
    ELSE ClosedFormDistance(self.h0, self.omega_m, self.omega_l, redshift)

\* omega_l is computed into a local, but the numerator reads self.omega_l,
\* an attribute __init__ never sets: the attribute lookup raises.
angular_diameter_distance(self, redshift) ==
    IF redshift = 0
    THEN Return(0)
    ELSE IF ~HasAttr(self, "omega_l")
         THEN Raise("AttributeError")
         ELSE ClosedFormDistance(self.h0, self.omega_m, self.omega_l, redshift)

calculate_flux_density(self, flux_ref, z_ref, z_target, spectral_index) ==
    LET d_ref == angular_diameter_distance(self, z_ref)
        d_target == angular_diameter_distance(self, z_target)
    IN  IF ~Returned(d_ref) THEN d_ref
        ELSE IF ~Returned(d_target) THEN d_target
        ELSE IF d_ref.val = 0 \/ d_target.val = 0 THEN Return(flux_ref)
        ELSE IF Milli + z_ref = 0 THEN Raise("ZeroDivisionError")
        ELSE LET k_correction == FixPow(FixDiv(Milli + z_target, Milli + z_ref), spectral_index)
                 ratio == FixDiv(d_ref.val, d_target.val)
             IN  Return(FixMul(FixMul(flux_ref, FixMul(ratio, ratio)), k_correction))

calculate_angular_size(self, linear_size_mpc, redshift) ==
    LET d_a == angular_diameter_distance(self, redshift)
    IN  IF ~Returned(d_a) THEN d_a
        ELSE IF d_a.val = 0 THEN Return(0)
        ELSE Return(FixDiv(FixMul(ARCMIN_PER_RADIAN, linear_size_mpc), d_a.val))

\* The attributes of self after a call of angular_diameter_distance that
\* stores omega_l on the instance instead of in a local.
SelfAfterDistance_StoresOmegaL(self, redshift) ==
    IF redshift = 0
    THEN self
    ELSE [h0 |-> self.h0, omega_m |-> self.omega_m, omega_l |-> Milli - self.omega_m]

\* The attributes of self after a call of angular_diameter_distance: the
\* method assigns to locals only (omega_l, numerator, denominator).
SelfAfterDistance(self, redshift) == self

\* calculate_flux_density calls angular_diameter_distance for z_ref and,
\* when that returned, for z_target; it assigns nothing else.
SelfAfterFluxDensity(self, z_ref, z_target) ==
    IF ~Returned(angular_diameter_distance(self, z_ref))
    THEN SelfAfterDistance(self, z_ref)
    ELSE SelfAfterDistance(SelfAfterDistance(self, z_ref), z_target)

\* calculate_angular_size calls angular_diameter_distance once.
SelfAfterAngularSize(self, redshift) == SelfAfterDistance(self, redshift)

----------------------------------------------------------------------------
(* Validators (sos/utils/validators.py).                                   *)

\* The loop of validate_redshifts returning inside its body: only the
\* first entry is checked.
RedshiftLoop_FirstOnly(items, i) ==
    IF i > Len(items) THEN Return(TRUE)
    ELSE IF ~IsIntOrFloat(items[i]) THEN Raise("ValueError")
    ELSE IF ~PyBetween(MIN_REDSHIFT, items[i], MAX_REDSHIFT) THEN Raise("ValueError")
    ELSE Return(TRUE)

RECURSIVE RedshiftLoop(_, _)
RedshiftLoop(items, i) ==
    IF i > Len(items) THEN Return(TRUE)
    ELSE IF ~IsIntOrFloat(items[i]) THEN Raise("ValueError")
    ELSE IF ~PyBetween(MIN_REDSHIFT, items[i], MAX_REDSHIFT) THEN Raise("ValueError")
    ELSE RedshiftLoop(items, i + 1)

validate_redshifts(redshifts) ==
    IF redshifts.t # "list" \/ Len(redshifts.items) = 0
    THEN Raise("ValueError")
    ELSE RedshiftLoop(redshifts.items, 1)

\* validate_spectral_index with the upper bound exclusive.
validate_spectral_index_ExclusiveMax(alpha) ==
    IF ~IsIntOrFloat(alpha) THEN Raise("ValueError")
    ELSE IF ~(PyBetween(MIN_SPECTRAL_INDEX, alpha, MAX_SPECTRAL_INDEX) /\ alpha.v # MAX_SPECTRAL_INDEX)
    THEN Raise("ValueError")
    ELSE Return(TRUE)

validate_spectral_index(alpha) ==
    IF ~IsIntOrFloat(alpha) THEN Raise("ValueError")
    ELSE IF ~PyBetween(MIN_SPECTRAL_INDEX, alpha, MAX_SPECTRAL_INDEX) THEN Raise("ValueError")
    ELSE Return(TRUE)

\* validate_flux_density with the lower bound left out: a negative flux passes.
validate_flux_density_NoLowerBound(flux_jy) ==
    IF ~IsIntOrFloat(flux_jy) THEN Raise("ValueError")
    ELSE IF ~(~flux_jy.nan /\ flux_jy.v <= MAX_FLUX_DENSITY_JY) THEN Raise("ValueError")
    ELSE Return(TRUE)

validate_flux_density(flux_jy) ==
    IF ~IsIntOrFloat(flux_jy) THEN Raise("ValueError")
    ELSE IF ~PyBetween(MIN_FLUX_DENSITY_JY, flux_jy, MAX_FLUX_DENSITY_JY) THEN Raise("ValueError")
    ELSE Return(TRUE)

----------------------------------------------------------------------------
(* Strings and number formatting.                                          *)

DigitChars == <<"0", "1", "2", "3", "4", "5", "6", "7", "8", "9">>
DigitSet == {DigitChars[i] : i \in 1..10}
DigitVal(c) == (CHOOSE i \in 1..10 : DigitChars[i] = c) - 1

\* str(n), format(n, "d") for n >= 0.
RECURSIVE NatToStr(_)
NatToStr(n) == IF n < 10 THEN <<DigitChars[n + 1]>> ELSE NatToStr(n \div 10) \o <<DigitChars[(n % 10) + 1]>>

\* format(n, "02d") for n >= 0.
Format02d(n) == IF n < 10 THEN <<"0">> \o NatToStr(n) ELSE NatToStr(n)

\* n / d rounded to the nearest integer, a tie to the even one (n >= 0, d > 0):
\* the rounding of format(x, ".2f") on the exact value.
RoundHalfEven(n, d) ==
    LET q == n \div d
        r == n % d
    IN  IF 2 * r > d \/ (2 * r = d /\ q % 2 = 1) THEN q + 1 ELSE q

\* format(x, ".2f") for x = centis / 100 >= 0.
Format2f(centis) == NatToStr(centis \div 100) \o <<".">> \o Format02d(centis % 100)

\* format(x, "05.2f"): zero-padded to a width of 5.
Format05_2f(centis) == IF centis < 1000 THEN <<"0">> \o Format2f(centis) ELSE Format2f(centis)

\* s.replace(old, new) for single characters, and s.replace(old, "").
ReplaceChar(s, old, new) == [i \in 1..Len(s) |-> IF s[i] = old THEN new ELSE s[i]]
RemoveChar(s, old) == SelectSeq(s, LAMBDA c : c # old)

\* s.split(sep) for a single-character separator.
RECURSIVE SplitFrom(_, _, _, _)
SplitFrom(s, sep, cur, acc) ==
    IF s = <<>> THEN Append(acc, cur)
    ELSE IF Head(s) = sep THEN SplitFrom(Tail(s), sep, <<>>, Append(acc, cur))
    ELSE SplitFrom(Tail(s), sep, Append(cur, Head(s)), acc)

Split(s, sep) == SplitFrom(s, sep, <<>>, <<>>)

RECURSIVE DigitsValue(_)
DigitsValue(s) == IF s = <<>> THEN 0 ELSE 10 * DigitsValue(SubSeq(s, 1, Len(s) - 1)) + DigitVal(s[Len(s)])

\* s.strip(): white space removed from both ends.
WhitespaceChars == {" ", "\t", "\n"}

RECURSIVE LStrip(_)
LStrip(s) == IF s # <<>> /\ Head(s) \in WhitespaceChars THEN LStrip(Tail(s)) ELSE s

RECURSIVE RStrip(_)
RStrip(s) ==
    IF s # <<>> /\ s[Len(s)] \in WhitespaceChars THEN RStrip(SubSeq(s, 1, Len(s) - 1)) ELSE s

Strip(s) == RStrip(LStrip(s))

\* float(s) for strings over the digits, '.', '+', '-', 'e', 'E', white
\* space and characters float() has no use for (not over '_', nor the
\* letters of inf and nan): white space around, an optional sign, digits
\* with at most one decimal point and at least one digit, an optional
\* exponent of 'e', an optional sign and digits.  The value is the rational
\* n / d, d a power of ten.

\* The value of a float literal: its sign, the digits of its mantissa and
\* the power of ten they are scaled by, as the rational n / d.
FloatValue(negative, digits, scale) ==
    Return([n |-> (IF negative THEN -1 ELSE 1) * DigitsValue(digits)
                  * (IF scale >= 0 THEN 10 ^ scale ELSE 1),
            d |-> IF scale >= 0 THEN 1 ELSE 10 ^ (-scale)])

\* The number of digits after the decimal point of a mantissa.
FractionLength(mantissa) ==
    Cardinality({i \in 1..Len(mantissa) :
                    \E j \in 1..(i - 1) : mantissa[j] = "."})

\* The exponent digits [sign] digits denote; 0 for no exponent.
ExponentValue(power) ==
    IF power = <<>> THEN 0
    ELSE IF power[1] = "-" THEN -DigitsValue(Tail(power))
    ELSE IF power[1] = "+" THEN DigitsValue(Tail(power))
    ELSE DigitsValue(power)

\* A mantissa is digits with at most one decimal point and at least one
\* digit; an exponent, where there is one, is an optional sign and digits.
FloatOfFields(negative, mantissa, hasExponent, power) ==
    IF /\ \A i \in 1..Len(mantissa) : mantissa[i] \in DigitSet \cup {"."}
       /\ Cardinality({i \in 1..Len(mantissa) : mantissa[i] = "."}) <= 1
       /\ \E i \in 1..Len(mantissa) : mantissa[i] \in DigitSet
       /\ hasExponent
          => \E first \in 1..2 :
                /\ first = 2 <=> (power # <<>> /\ power[1] \in {"+", "-"})
                /\ first <= Len(power)
                /\ \A i \in first..Len(power) : power[i] \in DigitSet
    THEN FloatValue(negative, SelectSeq(mantissa, LAMBDA c : c \in DigitSet),
                    ExponentValue(power) - FractionLength(mantissa))
    ELSE Raise("ValueError")

\* The index of the first 'e' or 'E' of a literal, 0 when it has none.
ExponentMark(body) ==
    IF \E i \in 1..Len(body) : body[i] \in {"e", "E"}
    THEN CHOOSE i \in 1..Len(body) :
             /\ body[i] \in {"e", "E"}
             /\ \A j \in 1..(i - 1) : body[j] \notin {"e", "E"}
    ELSE 0

\* The literal without its sign: the mantissa ends at the first 'e' or 'E'.
FloatOfSplit(negative, body, mark) ==
    IF mark = 0 THEN FloatOfFields(negative, body, FALSE, <<>>)
    ELSE FloatOfFields(negative, SubSeq(body, 1, mark - 1), TRUE,
                       SubSeq(body, mark + 1, Len(body)))

FloatOfBody(negative, body) == FloatOfSplit(negative, body, ExponentMark(body))

FloatOfLiteral(stripped) ==
    IF stripped # <<>> /\ stripped[1] \in {"+", "-"}
    THEN FloatOfBody(stripped[1] = "-", Tail(stripped))
    ELSE FloatOfBody(FALSE, stripped)

ParseFloat(s) == FloatOfLiteral(Strip(s))

\* Rationals n / d with d > 0.
RatLess(a, b) == a.n * b.d < b.n * a.d
RatLeq(a, b) == a.n * b.d <= b.n * a.d
RatInt(k) == [n |-> k, d |-> 1]

\* x + y / 60 + z / 3600 for rationals whose denominators are powers of ten.
Sexagesimal(x, y, z) ==
    LET D == IF x.d >= y.d /\ x.d >= z.d THEN x.d ELSE IF y.d >= z.d THEN y.d ELSE z.d
    IN  [n |-> 3600 * x.n * (D \div x.d) + 60 * y.n * (D \div y.d) + z.n * (D \div z.d),
         d |-> 3600 * D]

----------------------------------------------------------------------------
(* The coordinate codec (sos/utils/coordinates.py).  The encoders take an  *)
(* angle in ticks.                                                         *)

TicksPerArcsec == 300
TicksPerRaSecond == RA_ARCSEC_PER_SECOND * TicksPerArcsec
TicksPerRaMinute == 60 * TicksPerRaSecond
TicksPerRaHour == 60 * TicksPerRaMinute
TicksPerArcmin == 60 * TicksPerArcsec
TicksPerDegree == 60 * TicksPerArcmin

\* ra_arcsec_to_hms with "<= 0" for "< 0": zero is rejected too.
ra_arcsec_to_hms_ZeroRejected(ra_arcsec) ==
    IF ra_arcsec <= 0 THEN Raise("ValueError")
    ELSE LET hours == ra_arcsec \div TicksPerRaHour
             minutes == (ra_arcsec % TicksPerRaHour) \div TicksPerRaMinute
             seconds == RoundHalfEven(100 * (ra_arcsec % TicksPerRaMinute), TicksPerRaSecond)
         IN  Return(Format02d(hours) \o <<"h">> \o Format02d(minutes) \o <<"m">>
                    \o Format05_2f(seconds) \o <<"s">>)

ra_arcsec_to_hms(ra_arcsec) ==
    IF ra_arcsec < 0 THEN Raise("ValueError")
    ELSE LET hours == ra_arcsec \div TicksPerRaHour
             minutes == (ra_arcsec % TicksPerRaHour) \div TicksPerRaMinute
             seconds == RoundHalfEven(100 * (ra_arcsec % TicksPerRaMinute), TicksPerRaSecond)
         IN  Return(Format02d(hours) \o <<"h">> \o Format02d(minutes) \o <<"m">>
                    \o Format05_2f(seconds) \o <<"s">>)

\* Both branches decompose the magnitude; the sign goes in front.
DmsOfMagnitude(sign, magnitude) ==
    LET degrees == magnitude \div TicksPerDegree
        arcminutes == (magnitude % TicksPerDegree) \div TicksPerArcmin
        arcseconds == RoundHalfEven(100 * (magnitude % TicksPerArcmin), TicksPerArcsec)
    IN  <<sign>> \o NatToStr(degrees) \o <<"d">> \o NatToStr(arcminutes) \o <<"m">>
        \o Format05_2f(arcseconds) \o <<"s">>

dec_arcsec_to_dms(dec_arcsec) ==
    IF dec_arcsec < 0
    THEN Return(DmsOfMagnitude("-", -dec_arcsec))
    ELSE Return(DmsOfMagnitude("+", dec_arcsec))

\* dec_arcsec_to_dms of a float: a number of ticks and, for the number 0,
\* whether it is the float -0.0.  The test -0.0 < 0.0 is false, so -0.0
\* takes the second branch, where degrees = int(-0.0) is 0,
\* remainder = 60.0 * (-0.0 - 0) is -0.0, arcminutes = int(-0.0) is 0 and
\* arcseconds = 60.0 * (-0.0 - 0) is -0.0, which '.2f' and '05.2f' write
\* with its sign: "-0.00", five characters wide as it is.
dec_arcsec_to_dms_float(dec_arcsec, negative_zero) ==
    IF negative_zero
    THEN Return(<<"+">> \o NatToStr(0) \o <<"d">> \o NatToStr(0) \o <<"m">>
                \o <<"-">> \o Format2f(0) \o <<"s">>)
    ELSE dec_arcsec_to_dms(dec_arcsec)

\* The value of three parsed fields, each below its bound.
RaOfFields(hours, minutes, seconds) ==
    IF ~(Returned(hours) /\ Returned(minutes) /\ Returned(seconds))
    THEN Raise("ValueError")
    ELSE IF ~(/\ RatLeq(RatInt(0), hours.val) /\ RatLess(hours.val, RatInt(24))
              /\ RatLeq(RatInt(0), minutes.val) /\ RatLess(minutes.val, RatInt(60))
              /\ RatLeq(RatInt(0), seconds.val) /\ RatLess(seconds.val, RatInt(60)))
    THEN Raise("ValueError")
    ELSE Return(Sexagesimal(hours.val, minutes.val, seconds.val))

RaOfParts(parts) ==
    IF Len(parts) # 3 THEN Raise("ValueError")
    ELSE RaOfFields(ParseFloat(parts[1]), ParseFloat(parts[2]), ParseFloat(parts[3]))

parse_ra_hms(ra_string) ==
    RaOfParts(Split(RemoveChar(ReplaceChar(ReplaceChar(ra_string, "h", ":"), "m", ":"), "s"),
                    ":"))

\* sign * dec_decimal.
SignedRat(negative, x) == [n |-> IF negative THEN -x.n ELSE x.n, d |-> x.d]

DecOfFields(negative, degrees, arcminutes, arcseconds) ==
    IF ~(Returned(degrees) /\ Returned(arcminutes) /\ Returned(arcseconds))
    THEN Raise("ValueError")
    ELSE IF ~(/\ RatLeq(RatInt(0), degrees.val) /\ RatLess(degrees.val, RatInt(360))
              /\ RatLeq(RatInt(0), arcminutes.val) /\ RatLess(arcminutes.val, RatInt(60))
              /\ RatLeq(RatInt(0), arcseconds.val) /\ RatLess(arcseconds.val, RatInt(60)))
    THEN Raise("ValueError")
    ELSE Return(SignedRat(negative,
                          Sexagesimal(degrees.val, arcminutes.val, arcseconds.val)))

DecOfParts(negative, parts) ==
    IF Len(parts) # 3 THEN Raise("ValueError")
    ELSE DecOfFields(negative, ParseFloat(parts[1]), ParseFloat(parts[2]),
                     ParseFloat(parts[3]))

\* The sign is taken off the front before the separators are replaced.
DecOfUnsigned(negative, unsigned) ==
    DecOfParts(negative,
               Split(RemoveChar(ReplaceChar(ReplaceChar(unsigned, "d", ":"), "m", ":"), "s"),
                     ":"))

parse_dec_dms(dec_string) ==
    IF Len(dec_string) > 0 /\ dec_string[1] \in {"+", "-"}
    THEN DecOfUnsigned(dec_string[1] = "-", Tail(dec_string))
    ELSE DecOfUnsigned(FALSE, dec_string)

----------------------------------------------------------------------------
(* ImageMaker (sos/core/image_maker.py).                                   *)

\* str(x) of a validated redshift, as the f-string of the image name
\* renders it: "0" for the int 0, "0.05" for the float 0.05, "True" for True.
FracDigits(m) ==
    IF m % 100 = 0 THEN NatToStr(m \div 100)
    ELSE IF m % 10 = 0 THEN Format02d(m \div 10)
    ELSE Format02d(m \div 10) \o NatToStr(m % 10)

PyStrOf(x) ==
    IF x.t = "bool" THEN (IF x.v = 0 THEN <<"F", "a", "l", "s", "e">> ELSE <<"T", "r", "u", "e">>)
    ELSE IF x.t = "int" THEN NatToStr(x.v \div Milli)
    ELSE NatToStr(x.v \div Milli) \o <<".">> \o FracDigits(x.v % Milli)

ImageName(z) == <<"m", "o", "d", "e", "l", "s", "k", "y", "_">> \o PyStrOf(z) \o <<".", "i", "m">>

\* ImageMaker.__init__ builds its own calculator with the default parameters.
ImageMakerCosmology == CosmologyCalculator(HUBBLE_CONSTANT, MATTER_DENSITY_PARAMETER)

\* The loop of create_model_sky from index i on, images being the names
\* appended so far.  An exception leaves the loop and the function.
\* The loop inserting each name at the front of images: the outputs come
\* out in reverse.
RECURSIVE ModelSkyLoop_Prepend(_, _, _, _, _, _)
ModelSkyLoop_Prepend(items, i, linear_size_mpc, reference_flux_jy, spectral_index, images) ==
    IF i > Len(items) THEN Return(images)
    ELSE LET flux == calculate_flux_density(ImageMakerCosmology, reference_flux_jy,
                                            items[1].v, items[i].v, spectral_index)
             angular_size == calculate_angular_size(ImageMakerCosmology, linear_size_mpc, items[i].v)
         IN  IF ~Returned(flux) THEN flux
             ELSE IF ~Returned(angular_size) THEN angular_size
             ELSE ModelSkyLoop_Prepend(items, i + 1, linear_size_mpc, reference_flux_jy,
                                       spectral_index, <<ImageName(items[i])>> \o images)

\* The loop catching the error of a redshift and returning the names
\* appended before it.
RECURSIVE ModelSkyLoop_PartialOnFailure(_, _, _, _, _, _)
ModelSkyLoop_PartialOnFailure(items, i, linear_size_mpc, reference_flux_jy, spectral_index, images) ==
    IF i > Len(items) THEN Return(images)
    ELSE LET flux == calculate_flux_density(ImageMakerCosmology, reference_flux_jy,
                                            items[1].v, items[i].v, spectral_index)
             angular_size == calculate_angular_size(ImageMakerCosmology, linear_size_mpc, items[i].v)
         IN  IF ~Returned(flux) \/ ~Returned(angular_size) THEN Return(images)
             ELSE ModelSkyLoop_PartialOnFailure(items, i + 1, linear_size_mpc, reference_flux_jy,
                                                spectral_index, Append(images, ImageName(items[i])))

RECURSIVE ModelSkyLoop(_, _, _, _, _, _)
ModelSkyLoop(items, i, linear_size_mpc, reference_flux_jy, spectral_index, images) ==
    IF i > Len(items) THEN Return(images)
    ELSE LET flux == calculate_flux_density(ImageMakerCosmology, reference_flux_jy,
                                            items[1].v, items[i].v, spectral_index)
             angular_size == calculate_angular_size(ImageMakerCosmology, linear_size_mpc, items[i].v)
         IN  IF ~Returned(flux) THEN flux
             ELSE IF ~Returned(angular_size) THEN angular_size
             ELSE ModelSkyLoop(items, i + 1, linear_size_mpc, reference_flux_jy, spectral_index,
                               Append(images, ImageName(items[i])))

\* casa_available: whether "from casac import casatools" succeeds.
create_model_sky(redshifts, linear_size_mpc, reference_flux_jy, spectral_index, casa_available) ==
    LET valid == validate_redshifts(redshifts)
    IN  IF ~Returned(valid) THEN valid
        ELSE IF ~casa_available THEN Raise("ImportError")
        ELSE ModelSkyLoop(redshifts.items, 1, linear_size_mpc, reference_flux_jy, spectral_index, <<>>)

----------------------------------------------------------------------------
(* ConfigLoader (sos/config/config_loader.py) and the file checks it makes *)
(* (sos/utils/validators.py).  A path is a file name without directories.  *)

Key_simulation == <<"s", "i", "m", "u", "l", "a", "t", "i", "o", "n">>
Key_redshifts == <<"r", "e", "d", "s", "h", "i", "f", "t", "s">>
Key_spectral_index == <<"s", "p", "e", "c", "t", "r", "a", "l", "_", "i", "n", "d", "e", "x">>
Key_channels == <<"c", "h", "a", "n", "n", "e", "l", "s">>
Key_frequency_resolution_mhz ==
    <<"f", "r", "e", "q", "u", "e", "n", "c", "y", "_", "r", "e", "s", "o", "l", "u", "t", "i", "o", "n",
      "_", "m", "h", "z">>
Key_integration_time == <<"i", "n", "t", "e", "g", "r", "a", "t", "i", "o", "n", "_", "t", "i", "m", "e">>
Key_source == <<"s", "o", "u", "r", "c", "e">>
Key_linear_size_mpc == <<"l", "i", "n", "e", "a", "r", "_", "s", "i", "z", "e", "_", "m", "p", "c">>
Key_flux_density_jy == <<"f", "l", "u", "x", "_", "d", "e", "n", "s", "i", "t", "y", "_", "j", "y">>
Key_source_type == <<"s", "o", "u", "r", "c", "e", "_", "t", "y", "p", "e">>
Key_image == <<"i", "m", "a", "g", "e">>
Key_cell_size == <<"c", "e", "l", "l", "_", "s", "i", "z", "e">>
Key_image_size == <<"i", "m", "a", "g", "e", "_", "s", "i", "z", "e">>
Key_reference_frequency ==
    <<"r", "e", "f", "e", "r", "e", "n", "c", "e", "_", "f", "r", "e", "q", "u", "e", "n", "c", "y">>
Key_telescope == <<"t", "e", "l", "e", "s", "c", "o", "p", "e">>
Key_config_file == <<"c", "o", "n", "f", "i", "g", "_", "f", "i", "l", "e">>
Key_elevation_limit == <<"e", "l", "e", "v", "a", "t", "i", "o", "n", "_", "l", "i", "m", "i", "t">>
Key_observation == <<"o", "b", "s", "e", "r", "v", "a", "t", "i", "o", "n">>
Key_rise_time == <<"r", "i", "s", "e", "_", "t", "i", "m", "e">>
Key_num_scans == <<"n", "u", "m", "_", "s", "c", "a", "n", "s">>
Key_start_time_sec == <<"s", "t", "a", "r", "t", "_", "t", "i", "m", "e", "_", "s", "e", "c">>
Key_scan_duration_sec ==
    <<"s", "c", "a", "n", "_", "d", "u", "r", "a", "t", "i", "o", "n", "_", "s", "e", "c">>
Key_scan_gap_sec == <<"s", "c", "a", "n", "_", "g", "a", "p", "_", "s", "e", "c">>

\* The dictionary create_default_config returns.
create_default_config ==
    PyDict(
        (Key_simulation :> PyDict(
            (Key_redshifts :> PyList([i \in 1..Len(DEFAULT_REDSHIFTS) |-> PyFloat(DEFAULT_REDSHIFTS[i])]))
            @@ (Key_spectral_index :> PyFloat(-1600))
            @@ (Key_channels :> PyInt(1))
            @@ (Key_frequency_resolution_mhz :> PyFloat(50 * Milli))
            @@ (Key_integration_time :> PyStrLit(<<"1", "s">>))))
        @@ (Key_source :> PyDict(
            (Key_linear_size_mpc :> PyFloat(500))
            @@ (Key_flux_density_jy :> PyFloat(600))
            @@ (Key_source_type :> PyInt(1))))
        @@ (Key_image :> PyDict(
            (Key_cell_size :> PyStrLit(<<"0", ".", "0", "1", "a", "r", "c", "s", "e", "c">>))
            @@ (Key_image_size :> PyInt(7200))
            @@ (Key_reference_frequency :> PyStrLit(<<"9", ".", "2", "G", "H", "z">>))))
        @@ (Key_telescope :> PyDict(
            (Key_config_file :> PyStrLit(<<"s", "k", "a", "_", "m", "i", "d", "1", "9", "7", "_", "n", "e", "w",
                                           ".", "c", "f", "g">>))
            @@ (Key_elevation_limit :> PyFloat(17 * Milli))))
        @@ (Key_observation :> PyDict(
            (Key_rise_time :> PyStrLit(<<"5", "6", "8", "3", "9", ".", "0", "d">>))
            @@ (Key_num_scans :> PyInt(1))
            @@ (Key_start_time_sec :> PyFloat(Milli))
            @@ (Key_scan_duration_sec :> PyFloat(2 * Milli))
            @@ (Key_scan_gap_sec :> PyFloat(0)))))

\* str.lower() on the ASCII letters.
UpperChars ==
    <<"A", "B", "C", "D", "E", "F", "G", "H", "I", "J", "K", "L", "M",
      "N", "O", "P", "Q", "R", "S", "T", "U", "V", "W", "X", "Y", "Z">>
LowerChars ==
    <<"a", "b", "c", "d", "e", "f", "g", "h", "i", "j", "k", "l", "m",
      "n", "o", "p", "q", "r", "s", "t", "u", "v", "w", "x", "y", "z">>
LowerChar(c) ==
    IF \E i \in 1..26 : UpperChars[i] = c
    THEN LowerChars[CHOOSE i \in 1..26 : UpperChars[i] = c]
    ELSE c
Lower(s) == [i \in 1..Len(s) |-> LowerChar(s[i])]

\* Path(name).suffix: the name from its last dot on, empty when there is no
\* dot, or none but a leading or a trailing one.
Suffix(name) ==
    LET dots == {i \in 2..Len(name) : name[i] = "."}
        last == CHOOSE i \in dots : \A j \in dots : j <= i
    IN  IF dots = {} \/ last = Len(name) THEN <<>> ELSE SubSeq(name, last, Len(name))

CfgSuffix == <<".", "c", "f", "g">>

\* What open() and yaml.safe_load make of a file: the document it holds, or
\* a parse error.
YamlDocument(doc) == [parses |-> TRUE, doc |-> doc]
YamlMalformed == [parses |-> FALSE]

\* A file-system entry: whether the path exists, is a regular file, its
\* st_size, and its content.
NoFile == [exists |-> FALSE]
Directory == [exists |-> TRUE, is_file |-> FALSE]
RegularFile(st_size, content) ==
    [exists |-> TRUE, is_file |-> TRUE, st_size |-> st_size, content |-> content]

validate_file_exists(entry) ==
    IF ~entry.exists THEN Raise("FileNotFoundError")
    ELSE IF ~entry.is_file THEN Raise("ValueError")
    ELSE Return(TRUE)

validate_config_file(config_path, entry) ==
    LET found == validate_file_exists(entry)
    IN  IF ~Returned(found) THEN found
        ELSE IF Lower(Suffix(config_path)) # CfgSuffix THEN Raise("ValueError")
        ELSE IF entry.st_size = 0 THEN Raise("ValueError")
        ELSE Return(TRUE)

\* key in container: membership in a dict's keys; a list or a str of the
\* samples holds no such member; anything else is not a container.
PyContains(container, key) ==
    IF container.t = "dict" THEN Return(key \in DOMAIN container.items)
    ELSE IF container.t \in {"list", "tuple", "str"} THEN Return(FALSE)
    ELSE Raise("TypeError")

\* The simulation section's checks of _validate_config.
ValidateSimulation(sim) ==
    LET hasRedshifts == PyContains(sim, Key_redshifts)
        hasIndex == PyContains(sim, Key_spectral_index)
        redshiftsOk == IF hasRedshifts.val THEN validate_redshifts(sim.items[Key_redshifts])
                       ELSE Return(TRUE)
    IN  IF ~Returned(hasRedshifts) THEN hasRedshifts
        ELSE IF ~Returned(redshiftsOk) THEN redshiftsOk
        ELSE IF hasIndex.val THEN validate_spectral_index(sim.items[Key_spectral_index])
        ELSE Return(TRUE)

_validate_config(config) ==
    IF ~PyTruthy(config) THEN Raise("ValueError")
    ELSE LET hasSimulation == PyContains(config, Key_simulation)
         IN  IF ~Returned(hasSimulation) THEN hasSimulation
             ELSE IF hasSimulation.val
             THEN LET checked == ValidateSimulation(config.items[Key_simulation])
                  IN  IF Returned(checked) THEN Return(PyNone) ELSE checked
             ELSE Return(PyNone)

\* load_config on the loader self, files being the file system: the outcome
\* and the loader as the call leaves it.
load_config(self, files) ==
    IF self.config_path.t = "NoneType"
    THEN [outcome |-> Raise("ValueError"), self |-> self]
    ELSE LET entry == files[self.config_path.s]
             checked == validate_config_file(self.config_path.s, entry)
         IN  IF ~Returned(checked) THEN [outcome |-> checked, self |-> self]
             ELSE IF ~entry.content.parses THEN [outcome |-> Raise("YAMLError"), self |-> self]
             ELSE LET loaded == [self EXCEPT !.config = entry.content.doc]
                      valid == _validate_config(loaded.config)
                  IN  IF ~Returned(valid) THEN [outcome |-> valid, self |-> loaded]
                      ELSE [outcome |-> Return(loaded.config), self |-> loaded]

\* ConfigLoader(config_path), config_path being a str or None: the outcome is
\* the new loader, or the exception load_config raised.  An empty path
\* counts as none given.
ConfigLoader(config_path, files) ==
    LET self == [config_path |-> IF PyTruthy(config_path) THEN config_path ELSE PyNone,
                 config |-> PyDict(<<>>)]
    IN  IF self.config_path.t = "NoneType" THEN Return(self)
        ELSE LET loaded == load_config(self, files)
             IN  IF Returned(loaded.outcome) THEN Return(loaded.self) ELSE loaded.outcome

\* to_dict(): the configuration the loader holds.
to_dict(self) == Return(self.config)

\* The loop of get from segment i on.
RECURSIVE GetLoop(_, _, _, _)
GetLoop(value, keys, i, default) ==
    IF i > Len(keys) THEN value
    ELSE IF value.t # "dict" THEN default
    ELSE IF keys[i] \notin DOMAIN value.items THEN default
    ELSE IF value.items[keys[i]].t = "NoneType" THEN default
    ELSE GetLoop(value.items[keys[i]], keys, i + 1, default)

get(self, key, default) == Return(GetLoop(self.config, Split(key, "."), 1, default))

----------------------------------------------------------------------------
(* validate_coordinate_string (sos/utils/validators.py): re.match of a     *)
(* pattern at the start of the string.  A pattern is read as the function  *)
(* from the set of positions a match may have reached to the set it may    *)
(* reach next, so that every way of matching is followed.                  *)

\* The character of s at index i ("" past the end).
CharAt(s, i) == IF 1 <= i /\ i <= Len(s) THEN s[i] ELSE ""

\* \d{lo,hi}: between lo and hi digits.
ReDigits(s, from, lo, hi) ==
    {j \in 1..(Len(s) + 1) :
        \E i \in from : /\ i + lo <= j /\ j <= i + hi
                        /\ \A k \in i..(j - 1) : s[k] \in DigitSet}

\* One character of the set chars.
ReChar(s, from, chars) == {i + 1 : i \in {j \in from : CharAt(s, j) \in chars}}

\* (?:\.\d+)?: a dot and one or more digits, or nothing.
ReOptionalFraction(s, from) ==
    from \cup ReDigits(s, ReChar(s, from, {"."}), 1, Len(s))

\* $: the end of the string, or the position before a newline that ends it.
ReEnd(s, from) ==
    {i \in from : i = Len(s) + 1 \/ (i = Len(s) /\ s[i] = "\n")}

\* ^(\d{1,2})h(\d{1,2})m(\d{1,2}(?:\.\d+)?)s$
MatchRaPattern(s) ==
    LET hours == ReChar(s, ReDigits(s, {1}, 1, 2), {"h"})
        minutes == ReChar(s, ReDigits(s, hours, 1, 2), {"m"})
        seconds == ReOptionalFraction(s, ReDigits(s, minutes, 1, 2))
    IN  ReEnd(s, ReChar(s, seconds, {"s"})) # {}

\* ^([+-])?(\d{1,2})d(\d{1,2})m(\d{1,2}(?:\.\d+)?)s$
MatchDecPattern(s) ==
    LET sign == {1} \cup ReChar(s, {1}, {"+", "-"})
        degrees == ReChar(s, ReDigits(s, sign, 1, 2), {"d"})
        minutes == ReChar(s, ReDigits(s, degrees, 1, 2), {"m"})
        seconds == ReOptionalFraction(s, ReDigits(s, minutes, 1, 2))
    IN  ReEnd(s, ReChar(s, seconds, {"s"})) # {}

validate_coordinate_string(coord_string, coord_type) ==
    IF Lower(coord_type) = <<"r", "a">>
    THEN IF MatchRaPattern(coord_string) THEN Return(TRUE) ELSE Raise("ValueError")
    ELSE IF Lower(coord_type) = <<"d", "e", "c">>
    THEN IF MatchDecPattern(coord_string) THEN Return(TRUE) ELSE Raise("ValueError")
    ELSE Raise("ValueError")

----------------------------------------------------------------------------
(* setup_logger (sos/utils/logger.py).  logging.getLogger(name) is the     *)
(* entry for name in the logging module's table of loggers; a logger has   *)
(* a level and a list of handlers, a handler a kind, a level and, for a    *)
(* file handler, the path it writes.                                       *)

\* A logger nobody configured: level NOTSET, no handlers.
FreshLogger == [level |-> 0, handlers |-> <<>>]

ConsoleHandler(level) == [kind |-> "console", level |-> level, path |-> PyNone]
FileHandler(level, log_file) == [kind |-> "file", level |-> level, path |-> log_file]

\* if log_file: None and the empty string are false.
Truthy(log_file) == log_file # PyNone /\ log_file.s # <<>>

\* The console block.
WithConsole(logger, level, console) ==
    IF console
    THEN [logger EXCEPT !.handlers = Append(@, ConsoleHandler(level))]
    ELSE logger

\* The file block: creating the directory or opening the file can fail
\* (writable is what the file system allows), and then the handler is not
\* added.
WithFile(logger, log_file, level, writable) ==
    IF ~Truthy(log_file) THEN [outcome |-> Return(TRUE), logger |-> logger]
    ELSE IF ~writable THEN [outcome |-> Raise("OSError"), logger |-> logger]
    ELSE [outcome |-> Return(TRUE),
          logger |-> [logger EXCEPT !.handlers = Append(@, FileHandler(level, log_file))]]

\* setup_logger without the test of logger.handlers.
setup_logger_AlwaysAttach(table, name, log_file, level, console, writable) ==
    LET added == WithFile(WithConsole([table[name] EXCEPT !.level = level], level, console),
                          log_file, level, writable)
    IN  [outcome |-> IF Returned(added.outcome) THEN Return(name) ELSE added.outcome,
         table |-> [table EXCEPT ![name] = added.logger]]

\* setup_logger(name, log_file, level, console) on the table of loggers:
\* its outcome (the logger returned is named by its name) and the table
\* after it.
setup_logger(table, name, log_file, level, console, writable) ==
    IF table[name].handlers # <<>>
    THEN [outcome |-> Return(name),
          table |-> [table EXCEPT ![name].level = level]]
    ELSE LET added == WithFile(WithConsole([table[name] EXCEPT !.level = level], level, console),
                               log_file, level, writable)
         IN  [outcome |-> IF Returned(added.outcome) THEN Return(name) ELSE added.outcome,
              table |-> [table EXCEPT ![name] = added.logger]]

----------------------------------------------------------------------------
(* make_img.py, the original script.  Its source-model computation (lines  *)
(* 62-105) is a function of the inputs z, L and F1 set at its top; it      *)
(* ends with the seven lists it has built, or with the exception that      *)
(* stops the script.                                                       *)

MakeImg_c == 299792
MakeImg_H == 67800
MakeImg_w == 308

\* aDD of line 70 for the redshift x.
aDD(x) ==
    LET wx == FixMul(MakeImg_w, x)
        base == FixMul(MakeImg_w, Milli + x)
        divisor == FixMul(MakeImg_H, FixMul(base, base))
    IN  IF divisor = 0
        THEN Raise("ZeroDivisionError")
        ELSE Return(FixDiv(MakeImg_c * 2 *
                           (wx + FixMul(MakeImg_w - 2 * Milli, FixSqrt(Milli + wx) - Milli)),
                           divisor))

\* for x in z: angDiaDist.append(aDD)
RECURSIVE AngDiaDistLoop(_, _, _)
AngDiaDistLoop(z, i, angDiaDist) ==
    IF i > Len(z) THEN Return(angDiaDist)
    ELSE IF ~Returned(aDD(z[i])) THEN aDD(z[i])
    ELSE AngDiaDistLoop(z, i + 1, Append(angDiaDist, aDD(z[i]).val))

\* theta = (3437.75*L)/x of line 83.
MakeImgTheta(L, x) == FixDiv(FixMul(3437750, L), x)

\* The loop of lines 82-86 with theta/3.0 appended to theta2 and theta/2.0
\* to theta3.
RECURSIVE ThetaLoop_VariantsSwapped(_, _, _, _, _, _)
ThetaLoop_VariantsSwapped(angDiaDist, L, i, theta1, theta2, theta3) ==
    IF i > Len(angDiaDist)
    THEN Return([theta1 |-> theta1, theta2 |-> theta2, theta3 |-> theta3])
    ELSE IF angDiaDist[i] = 0 THEN Raise("ZeroDivisionError")
    ELSE ThetaLoop_VariantsSwapped(angDiaDist, L, i + 1,
                   Append(theta1, MakeImgTheta(L, angDiaDist[i])),
                   Append(theta2, FixDiv(MakeImgTheta(L, angDiaDist[i]), 3 * Milli)),
                   Append(theta3, FixDiv(MakeImgTheta(L, angDiaDist[i]), 2 * Milli)))

\* for x in angDiaDist: theta1, theta2 and theta3 get theta, theta/2.0 and
\* theta/3.0.
RECURSIVE ThetaLoop(_, _, _, _, _, _)
ThetaLoop(angDiaDist, L, i, theta1, theta2, theta3) ==
    IF i > Len(angDiaDist)
    THEN Return([theta1 |-> theta1, theta2 |-> theta2, theta3 |-> theta3])
    ELSE IF angDiaDist[i] = 0 THEN Raise("ZeroDivisionError")
    ELSE ThetaLoop(angDiaDist, L, i + 1,
                   Append(theta1, MakeImgTheta(L, angDiaDist[i])),
                   Append(theta2, FixDiv(MakeImgTheta(L, angDiaDist[i]), 2 * Milli)),
                   Append(theta3, FixDiv(MakeImgTheta(L, angDiaDist[i]), 3 * Milli)))

\* fd = F1*((1+z[0])/(1+z[x]))**4*(angDiaDist[0]/angDiaDist[x])**2 of line 98.
MakeImgFd(F1, z, angDiaDist, x) ==
    FixMul(FixMul(F1, FixIntPow(FixDiv(Milli + z[1], Milli + z[x]), 4)),
           FixIntPow(FixDiv(angDiaDist[1], angDiaDist[x]), 2))

\* for x in range(0,len(z)): myflux1, myflux2 and myflux3 get fd, 2.0*fd
\* and 3.0*fd.
RECURSIVE FluxLoop(_, _, _, _, _, _, _)
FluxLoop(z, angDiaDist, F1, x, myflux1, myflux2, myflux3) ==
    IF x > Len(z)
    THEN Return([myflux1 |-> myflux1, myflux2 |-> myflux2, myflux3 |-> myflux3])
    ELSE IF Milli + z[x] = 0 \/ angDiaDist[x] = 0 THEN Raise("ZeroDivisionError")
    ELSE FluxLoop(z, angDiaDist, F1, x + 1,
                  Append(myflux1, MakeImgFd(F1, z, angDiaDist, x)),
                  Append(myflux2, 2 * MakeImgFd(F1, z, angDiaDist, x)),
                  Append(myflux3, 3 * MakeImgFd(F1, z, angDiaDist, x)))

\* The three loops one after the other; an exception in one ends the script.
SourceModelLists(angDiaDist, thetas, fluxes) ==
    IF ~Returned(fluxes) THEN fluxes
    ELSE Return([angDiaDist |-> angDiaDist,
                 theta1 |-> thetas.theta1, theta2 |-> thetas.theta2, theta3 |-> thetas.theta3,
                 myflux1 |-> fluxes.val.myflux1, myflux2 |-> fluxes.val.myflux2,
                 myflux3 |-> fluxes.val.myflux3])

SourceModelFluxes(z, F1, angDiaDist, thetas) ==
    IF ~Returned(thetas) THEN thetas
    ELSE SourceModelLists(angDiaDist, thetas.val,
                          FluxLoop(z, angDiaDist, F1, 1, <<>>, <<>>, <<>>))

SourceModelThetas(z, L, F1, distances) ==
    IF ~Returned(distances) THEN distances
    ELSE SourceModelFluxes(z, F1, distances.val,
                           ThetaLoop(distances.val, L, 1, <<>>, <<>>, <<>>))

make_img_source_model(z, L, F1) == SourceModelThetas(z, L, F1, AngDiaDistLoop(z, 1, <<>>))

(* The point-source part of the script (lines 136-207).  Offsets are whole  *)
(* numbers: dRA in seconds of right ascension, dDEC in arcseconds.  posnJ   *)
(* has one string per entry of posns, in the same order; the model keeps    *)
(* the offset pair each string is formatted from.                           *)

RANDOM_SOURCE_REGION_SIZE == 47
NUM_RANDOM_POINT_SOURCES == 5

\* random.randrange(start, stop): the values it can return.
randrange(start, stop) == start..(stop - 1)

\* dDEC with 44 in place of 47, which the script's comment proposes for
\* sources inside the halo only.
DeltaDec_InsideHalo(r) == 15 * (44 - r)

\* 15.0*(47.0-dRA[x]) of line 152.
DeltaDec(r) == 15 * (47 - r)

\* for x in xrange(5): r is the next random draw; dRA gets r and dDEC the
\* offset computed from it.
RECURSIVE DrawLoop(_, _, _, _)
DrawLoop(x, draws, dRA, dDEC) ==
    IF x >= 5 THEN [dRA |-> dRA, dDEC |-> dDEC]
    ELSE DrawLoop(x + 1, draws, Append(dRA, draws[x + 1]),
                  Append(dDEC, DeltaDec(Append(dRA, draws[x + 1])[x + 1])))

\* [(sa*a, sb*b) for a, b in zip(dRA, dDEC)] for the signs sa and sb.
Posn(dRA, dDEC, sa, sb) == [i \in 1..Len(dRA) |-> <<sa * dRA[i], sb * dDEC[i]>>]

\* posns = posn1+posn2+posn3+posn4.
Posns(dRA, dDEC) ==
    Posn(dRA, dDEC, 1, 1) \o Posn(dRA, dDEC, 1, -1)
    \o Posn(dRA, dDEC, -1, -1) \o Posn(dRA, dDEC, -1, 1)

\* random.sample(population, k) when it picked the positions picked, which
\* are k different positions of the population.
Sample(population, picked) == [i \in 1..Len(picked) |-> population[picked[i]]]

PointSourcesOf(offsets, picked) ==
    Return([dRA |-> offsets.dRA, dDEC |-> offsets.dDEC,
            posns |-> Posns(offsets.dRA, offsets.dDEC),
            coords |-> Sample(Posns(offsets.dRA, offsets.dDEC), picked)])

\* The point-source part when the random draws are draws and the sample
\* picks the positions picked.
make_img_point_sources(draws, picked) == PointSourcesOf(DrawLoop(0, draws, <<>>, <<>>), picked)

----------------------------------------------------------------------------
(* The inputs the calls are made with.                                     *)

MaxLen == 3
MaxOffset == 30

SeqRange(s) == {s[i] : i \in 1..Len(s)}
SeqsUpTo(S, n) == UNION {[1..k -> S] : k \in 0..n}

H0Inputs == {HUBBLE_CONSTANT, 70 * Milli}
\* The constructor does not validate: omega_m = 0 is accepted too.
OmegaInputs == {MATTER_DENSITY_PARAMETER, 300, 0}

RedshiftInputs == {0, 10 * Milli} \cup SeqRange(DEFAULT_REDSHIFTS)
FluxInputs == {0, 600, Milli}
AlphaInputs == {-5 * Milli, -1600, 0}
SizeInputs == {0, 500}

\* Entries of a redshift list: in range, on and beyond both bounds, and not
\* numbers at all.
RedshiftEntries ==
    {PyFloat(0), PyFloat(500), PyFloat(10 * Milli), PyFloat(10 * Milli + 1), PyFloat(-100),
     PyFloat(100 * Milli), PyInt(10), PyInt(11), PyBool(TRUE), PyNaN, PyStr}

RedshiftListInputs ==
    {PyList(items) : items \in SeqsUpTo(RedshiftEntries, MaxLen)}
    \cup {PyTuple(items) : items \in SeqsUpTo({PyFloat(500)}, MaxLen)}
    \cup {PyList([i \in 1..Len(DEFAULT_REDSHIFTS) |-> PyFloat(DEFAULT_REDSHIFTS[i])])}

SpectralIndexInputs ==
    {PyFloat(-1600), PyFloat(-5 * Milli), PyFloat(-5 * Milli - 1), PyFloat(-10 * Milli), PyFloat(0),
     PyFloat(1), PyFloat(Milli), PyInt(-5), PyInt(0), PyInt(1), PyBool(FALSE), PyBool(TRUE),
     PyNaN, PyStr, PyNone}

FluxDensityInputs ==
    {PyFloat(600), PyFloat(0), PyFloat(-1), PyFloat(MAX_FLUX_DENSITY_JY), PyFloat(MAX_FLUX_DENSITY_JY + 1),
     PyFloat(2 * MAX_FLUX_DENSITY_JY), PyFloat(-600), PyInt(1), PyInt(-1), PyInt(0),
     PyBool(TRUE), PyNaN, PyStr, PyNone}

\* The files of the directory the caller runs in, by name: the default
\* configuration as the example script saves it and under two names with
\* the suffix validate_config_file asks for, and files that do not load.
DefaultStem ==
    <<"s", "o", "s", "_", "c", "o", "n", "f", "i", "g", "_", "d", "e", "f", "a", "u", "l", "t">>
DefaultYaml == DefaultStem \o <<".", "y", "a", "m", "l">>
DefaultCfg == DefaultStem \o CfgSuffix
DefaultUpperCfg == DefaultStem \o <<".", "C", "F", "G">>
EdgeCfg == <<"e", "d", "g", "e">> \o CfgSuffix
EmptyCfg == <<"e", "m", "p", "t", "y">> \o CfgSuffix
RedshiftCfg == <<"r", "e", "d", "s", "h", "i", "f", "t">> \o CfgSuffix
CommentCfg == <<"c", "o", "m", "m", "e", "n", "t">> \o CfgSuffix
BrokenCfg == <<"b", "r", "o", "k", "e", "n">> \o CfgSuffix
MissingCfg == <<"m", "i", "s", "s", "i", "n", "g">> \o CfgSuffix
DirCfg == <<"d", "i", "r">> \o CfgSuffix

\* A document of falsy, null and nested values:
\* {a: {z: 0, f: false, s: "", l: [], n: null, d: {}}, b: "flat", c: null}.
EdgeDocument ==
    PyDict(
        (<<"a">> :> PyDict(
            (<<"z">> :> PyInt(0))
            @@ (<<"f">> :> PyBool(FALSE))
            @@ (<<"s">> :> PyStrLit(<<>>))
            @@ (<<"l">> :> PyList(<<>>))
            @@ (<<"n">> :> PyNone)
            @@ (<<"d">> :> PyDict(<<>>))))
        @@ (<<"b">> :> PyStrLit(<<"f", "l", "a", "t">>))
        @@ (<<"c">> :> PyNone))

\* {simulation: {redshifts: [0.5, 11.0]}}: a redshift out of range.
RedshiftDocument ==
    PyDict(Key_simulation :> PyDict(Key_redshifts :> PyList(<<PyFloat(500), PyFloat(11 * Milli)>>)))

Files ==
    (DefaultYaml :> RegularFile(1, YamlDocument(create_default_config)))
    @@ (DefaultCfg :> RegularFile(1, YamlDocument(create_default_config)))
    @@ (DefaultUpperCfg :> RegularFile(1, YamlDocument(create_default_config)))
    @@ (EdgeCfg :> RegularFile(1, YamlDocument(EdgeDocument)))
    @@ (EmptyCfg :> RegularFile(0, YamlDocument(PyNone)))
    @@ (RedshiftCfg :> RegularFile(1, YamlDocument(RedshiftDocument)))
    @@ (CommentCfg :> RegularFile(1, YamlDocument(PyNone)))
    @@ (BrokenCfg :> RegularFile(1, YamlMalformed))
    @@ (MissingCfg :> NoFile)
    @@ (DirCfg :> Directory)

ConfigPathInputs == {PyStrLit(name) : name \in DOMAIN Files} \cup {PyNone, PyStrLit(<<>>)}

\* The file system when load_config is called again: as it was, or with
\* the default .cfg file rewritten to hold what another file holds.
FileSystems ==
    {Files} \cup {[Files EXCEPT ![DefaultCfg] = Files[other]] :
                      other \in {RedshiftCfg, CommentCfg, EdgeCfg}}

\* Keys looked up: the three of the example script, whole sections, and
\* keys of the edge document with missing, empty and surplus segments.
Dotted(a, b) == a \o <<".">> \o b

GetKeyInputs ==
    {Dotted(Key_simulation, Key_redshifts), Dotted(Key_simulation, Key_spectral_index),
     Dotted(Key_image, Key_cell_size), Dotted(Key_image, Key_image_size), Key_image,
     Dotted(Key_image, Key_redshifts), Dotted(Dotted(Key_image, Key_cell_size), Key_image)}
    \cup {Dotted(<<"a">>, <<k>>) : k \in {"z", "f", "s", "l", "n", "d", "x"}}
    \cup {Dotted(Dotted(<<"a">>, <<k>>), <<"q">>) : k \in {"z", "n", "d"}}
    \cup {<<"a">>, <<"b">>, <<"c">>, <<"b", ".", "y">>, <<>>, <<"a", ".">>, <<".", "a">>,
          <<"a", ".", ".", "z">>}

GetDefaultInputs == {PyNone, PyInt(-1)}

\* Strings given to validate_coordinate_string, over the digits, h d m s : . + -,
\* the space and the newline: with and without unit letters, sign and fraction.
CoordStringInputs ==
    {<<"0", "4", "h", "3", "0", "m", "1", "5", ".", "5", "0", "s">>,
     <<"4", "h", "3", "m", "5", "s">>,
     <<"0", "4", "h", "3", "0", "m", "1", "5", ".", "5", "s", "\n">>,
     <<"4", ":", "3", "0", ":", "1", "5", ".", "5">>,
     <<"4", "5", ":", "3", "0", ":", "1", "5", ".", "5">>,
     <<"+", "4", "5", "d", "3", "0", "m", "1", "5", ".", "5", "0", "s">>,
     <<"-", "2", "0", "d", "3", "0", "m", "4", "5", ".", "5", "0", "s">>,
     <<"4", "5", "d", "3", "0", "m", "1", "5", ".", "5", "s">>,
     <<"-", "4", "5", "d", "3", "0", "m", "1", "5", ".", "5", "s", "\n">>,
     <<"9", "9", "h", "9", "9", "m", "9", "9", "s">>,
     <<"1", "2", "3", "h", "3", "0", "m", "1", "5", "s">>,
     <<"0", "4", "h", "3", "0", "m", "1", "5", ".", "s">>,
     <<"0", "4", "h", "3", "0", "m", ".", "5", "s">>,
     <<"0", "4", "h", "3", "0", "m", "1", "5", ".", "5", "s", " ">>,
     <<" ", "0", "4", "h", "3", "0", "m", "1", "5", ".", "5", "s">>,
     <<"0", "4", "h", "3", "0", "m", "1", "5", ".", "5", "s", "\n", "\n">>,
     <<"\n", "0", "4", "h", "3", "0", "m", "1", "5", ".", "5", "s">>,
     <<"0", "4", "h", "3", "0", "m", "1", "5", ".", "5">>,
     <<"0", "4", "h", "3", "0", "m", "1", "5">>,
     <<"+", "0", "4", "h", "3", "0", "m", "1", "5", "s">>,
     <<"+", "+", "4", "5", "d", "3", "0", "m", "1", "5", "s">>,
     <<"4", "5", "3", "0", "1", "5">>,
     <<>>,
     <<"0", "4", "h", "3", "0", "m", "1", "5", "5", "s">>,
     <<"h", "0", "4", "m", "3", "0", "s", "1", "5">>,
     <<"0", "4", "d", "3", "0", "m", "1", "5", ".", "5">>,
     <<"0", "4", "h", "3", "0", "m", "1", "5", ".", "5", "s", "s">>,
     <<"4", "d", "3", "m", "5", "s">>,
     <<"0", "4", "h", "3", "0", "m", "1", "5", ".", "5", "5", "5", "5", "5", "s">>,
     <<"-", "4", "d", "3", "m", "5", ".", "s">>}

\* Coordinate types, in both cases, and two that are neither ra nor dec.
CoordTypeInputs ==
    {<<"r", "a">>,
     <<"R", "A">>,
     <<"R", "a">>,
     <<"d", "e", "c">>,
     <<"D", "E", "C">>,
     <<"g", "a", "l">>,
     <<>>}

\* Arguments of setup_logger: two logger names, the levels DEBUG and INFO,
\* no log file, an empty path and two paths.
LoggerNames == {"sos", "sos.core"}
LevelInputs == {10, 20}
LogFileInputs == {PyNone, PyStrLit(<<>>), PyStrLit(<<"a">>), PyStrLit(<<"b">>)}

\* What the random module can give the script: five draws of
\* randrange(1,47), the first any value and the others the least or the
\* greatest, and samples of k positions out of n that start anywhere and
\* step by 1, 3 or 7 around the list (k different positions when n = 20).
DrawInputs == {<<r>> \o rest : r \in randrange(1, 47), rest \in [1..4 -> {1, 46}]}
SamplePositions(n, k) ==
    {[i \in 1..k |-> ((start - 1 + (i - 1) * step) % n) + 1] :
         start \in 1..n, step \in {1, 3, 7}}

\* The script's inputs: redshift lists over its first, second and last
\* default entries and 0, its linear size and its reference flux.
MakeImgRedshifts == SeqsUpTo({0, DEFAULT_REDSHIFTS[1], DEFAULT_REDSHIFTS[2], Milli}, MaxLen)
MakeImgSizes == {500}
MakeImgFluxes == {600}

\* Strings given to parse_dec_dms: bodies without a sign, with one sign and
\* with two, in range and out of range, well-formed and malformed.
DecStringInputs ==
    {<<"4", "5", "d", "3", "0", "m", "1", "5", ".", "5", "s">>,
     <<"+", "4", "5", "d", "3", "0", "m", "1", "5", ".", "5", "s">>,
     <<"-", "4", "5", "d", "3", "0", "m", "1", "5", ".", "5", "s">>,
     <<"+", "+", "4", "5", "d", "3", "0", "m", "1", "5", "s">>,
     <<"-", "+", "4", "5", "d", "3", "0", "m", "1", "5", "s">>,
     <<"+", "-", "4", "5", "d", "3", "0", "m", "1", "5", "s">>,
     <<"-", "-", "4", "5", "d", "3", "0", "m", "1", "5", "s">>,
     <<"-", "-", "0", "d", "0", "m", "0", "s">>,
     <<"+", "-", "0", "d", "0", "m", "0", "s">>,
     <<"4", "5", ":", "3", "0", ":", "1", "5">>,
     <<"-", "2", "0", ":", "3", "0", ":", "4", "5", ".", "5">>,
     <<"0", "d", "0", "m", "0", "s">>,
     <<"-", "0", "d", "0", "m", "0", "s">>,
     <<"+", "0", "0", "d", "0", "0", "m", "0", "0", ".", "0", "0", "s">>,
     <<"-", "2", "0", "d", "3", "0", "m", "4", "5", ".", "5", "0", "s">>,
     <<"3", "5", "9", "d", "5", "9", "m", "5", "9", ".", "9", "9", "s">>,
     <<"3", "6", "0", "d", "0", "m", "0", "s">>,
     <<"9", "0", "d", "0", "m", "0", "s">>,
     <<"9", "1", "d", "0", "m", "0", "s">>,
     <<"+">>,
     <<"-">>,
     <<>>,
     <<"+", " ", "4", "5", "d", "0", "m", "0", "s">>,
     <<" ", "-", "4", "5", "d", "0", "m", "0", "s">>,
     <<"-", " ", "4", "5", "d", "0", "m", "0", "s">>,
     <<"4", "5", "d", "6", "0", "m", "0", "s">>,
     <<"4", "5", "d", "0", "m", "6", "0", "s">>,
     <<"+", "4", "5", "d", "3", "0", "m">>,
     <<"1", ".", "5", "d", "0", "m", "0", "s">>,
     <<"-", "1", "d", "-", "0", "m", "0", "s">>,
     <<"+", "1", "e", "1", "d", "0", "m", "0", "s">>,
     <<"4", "5", "d", "3", "0", "m", "1", "5">>,
     <<"0", "4", "h", "3", "0", "m", "1", "5", ".", "5", "s">>,
     <<"4", "5", "d", "3", "0", "m", "1", "5", ".", "5", "s", "\n">>,
     <<"+", "4", "5", "d", "3", "0", "m", "1", "5", ".", "5", "s", "\n">>,
     <<"9", "9", "d", "9", "9", "m", "9", "9", "s">>,
     <<"-", "9", "9", "d", "5", "9", "m", "5", "9", "s">>,
     <<"4", "d", "3", "m", "5", "s">>,
     <<"+", "4", "d", "3", "m", "5", "s">>,
     <<"-", "4", "d", "3", "m", "5", "s">>}

\* Strings given to parse_ra_hms, over the digits, h m s : . + - e x and the
\* space: well-formed ones on and beyond the range bounds, and malformed ones.
RaStringInputs ==
    {<<"0", "0", "h", "0", "0", "m", "0", "0", ".", "0", "0", "s">>,
     <<"2", "3", "h", "5", "9", "m", "5", "9", ".", "9", "9", "s">>,
     <<"0", "4", "h", "3", "0", "m", "1", "5", ".", "5", "0", "s">>,
     <<"0", "4", ":", "3", "0", ":", "1", "5", ".", "5", "0">>,
     <<"4", ":", "3", "0", ":", "1", "5", ".", "5">>,
     <<"1", "2", "h", "3", "0", "m", "1", "5", "s">>,
     <<"1", "h", "2", "m", "3">>,
     <<"2", "4", "h", "0", "0", "m", "0", "0", ".", "0", "0", "s">>,
     <<"2", "3", "h", "6", "0", "m", "0", "0", ".", "0", "0", "s">>,
     <<"2", "3", "h", "5", "9", "m", "6", "0", ".", "0", "0", "s">>,
     <<"2", "5", ":", "0", "0", ":", "0", "0">>,
     <<"1", "s", "h", "2", "m", "3">>,
     <<"1", "m", "2", "m", "3">>,
     <<"1", "h", "2", "h", "3", "s">>,
     <<"1", "2", "h", "3", "0", "m", "s", "1", "5">>,
     <<"1", "h", "2", "m", "3", "s", "s">>,
     <<"1", ".", "5", "h", "0", "m", "0", "s">>,
     <<"2", "3", ".", "5", "h", "5", "9", "m", "5", "9", "s">>,
     <<"2", "3", "h", "5", "9", ".", "5", "m", "5", "9", "s">>,
     <<"1", "e", "1", "h", "0", "m", "0", "s">>,
     <<"1", "h", "2", "m", "3", "e", "0", "s">>,
     <<" ", "1", "h", "2", "m", "3", "s">>,
     <<"1", "h", "2", "m", "3", "s", " ">>,
     <<"+", "1", "h", "2", "m", "3", "s">>,
     <<"-", "0", "h", "0", "m", "0", "s">>,
     <<"1", "h", "2", "m", ".", "5", "s">>,
     <<"1", "h", "2", "m", "5", ".", "s">>,
     <<"x", "1", "h", "2", "m", "3", "s">>,
     <<"1", "h", "2", "m", "3", "s", "x">>,
     <<"s", "h", "m", "s">>,
     <<"h", ":", "m", ":", "s">>,
     <<"1", "h", "h", "2", "m", "3", "s">>,
     <<>>,
     <<"1", "h", "2", "m">>,
     <<"1", ":", "2", ":", "3", ":", "4">>,
     <<"1", "h", "-", "2", "m", "3", "s">>,
     <<"-", "1", "h", "0", "m", "0", "s">>,
     <<"1", "e", "h", "0", "m", "0", "s">>,
     <<"1", " ", "2", "h", "0", "m", "0", "s">>,
     <<"1", "h", "2", "m", "3", ".", "5", ".", "5", "s">>}

\* Redshift lists, fluxes and spectral indices given to create_model_sky.
ModelSkyEntries == {PyFloat(0), PyInt(0), PyFloat(50), PyFloat(500), PyFloat(-100)}
ModelSkyLists == {PyList(items) : items \in SeqsUpTo(ModelSkyEntries, MaxLen)}
ModelSkyFluxes == {600, 0, -100}
ModelSkyAlphas == {-1600, 0, Milli, -6 * Milli}
ModelSkySizes == {500}

\* Angles around the minute and hour boundaries: up to MaxOffset ticks above
\* and below a whole minute, and a third of a minute in.
OffsetsWithin(minuteTicks) ==
    (0..MaxOffset) \cup ((minuteTicks - MaxOffset)..(minuteTicks - 1)) \cup {minuteTicks \div 3}

RaInputs ==
    {h * TicksPerRaHour + m * TicksPerRaMinute + o :
        h \in {0, 1, 23, 24}, m \in {0, 59}, o \in OffsetsWithin(TicksPerRaMinute)}
    \cup {-1, -TicksPerRaSecond}

DecMagnitudes ==
    {d * TicksPerDegree + m * TicksPerArcmin + o :
        d \in {0, 20, 89}, m \in {0, 30, 59}, o \in OffsetsWithin(TicksPerArcmin)}

DecInputs == DecMagnitudes \cup {-x : x \in DecMagnitudes}

----------------------------------------------------------------------------
(* The state machine: one action per function called.  A call is made      *)
(* when none is in progress (op = "none"); Continue ends it.               *)

\* The caller has built no loader yet.
NoLoader == [config_path |-> PyNone, config |-> PyNone]

Init ==
    /\ cosmology \in {CosmologyCalculator(h0, omega_m) : h0 \in H0Inputs, omega_m \in OmegaInputs}
    /\ loader = NoLoader
    /\ loggers = [name \in LoggerNames |-> FreshLogger]
    /\ op = "none"
    /\ args = <<>>
    /\ result = [kind |-> "none"]

AngularDiameterDistance ==
    /\ op = "none"
    /\ \E z \in RedshiftInputs :
           /\ op' = "angular_diameter_distance"
           /\ args' = [redshift |-> z]
           /\ result' = angular_diameter_distance(cosmology, z)
           /\ cosmology' = SelfAfterDistance(cosmology, z)
           /\ UNCHANGED <<loader, loggers>>

CalculateFluxDensity ==
    /\ op = "none"
    /\ \E f \in FluxInputs, zr \in RedshiftInputs, zt \in RedshiftInputs, a \in AlphaInputs :
           /\ op' = "calculate_flux_density"
           /\ args' = [flux_ref |-> f, z_ref |-> zr, z_target |-> zt, spectral_index |-> a]
           /\ result' = calculate_flux_density(cosmology, f, zr, zt, a)
           /\ cosmology' = SelfAfterFluxDensity(cosmology, zr, zt)
           /\ UNCHANGED <<loader, loggers>>

CalculateAngularSize ==
    /\ op = "none"
    /\ \E l \in SizeInputs, z \in RedshiftInputs :
           /\ op' = "calculate_angular_size"
           /\ args' = [linear_size_mpc |-> l, redshift |-> z]
           /\ result' = calculate_angular_size(cosmology, l, z)
           /\ cosmology' = SelfAfterAngularSize(cosmology, z)
           /\ UNCHANGED <<loader, loggers>>

ValidateRedshifts ==
    /\ op = "none"
    /\ \E r \in RedshiftListInputs :
           /\ op' = "validate_redshifts"
           /\ args' = [redshifts |-> r]
           /\ result' = validate_redshifts(r)
           /\ UNCHANGED <<cosmology, loader, loggers>>

ValidateSpectralIndex ==
    /\ op = "none"
    /\ \E a \in SpectralIndexInputs :
           /\ op' = "validate_spectral_index"
           /\ args' = [alpha |-> a]
           /\ result' = validate_spectral_index(a)
           /\ UNCHANGED <<cosmology, loader, loggers>>

ValidateFluxDensity ==
    /\ op = "none"
    /\ \E f \in FluxDensityInputs :
           /\ op' = "validate_flux_density"
           /\ args' = [flux_jy |-> f]
           /\ result' = validate_flux_density(f)
           /\ UNCHANGED <<cosmology, loader, loggers>>

CreateModelSky ==
    /\ op = "none"
    /\ \E r \in ModelSkyLists, l \in ModelSkySizes, f \in ModelSkyFluxes, a \in ModelSkyAlphas,
          casa \in BOOLEAN :
           /\ op' = "create_model_sky"
           /\ args' = [redshifts |-> r, linear_size_mpc |-> l, reference_flux_jy |-> f,
                       spectral_index |-> a, casa_available |-> casa]
           /\ result' = create_model_sky(r, l, f, a, casa)
           /\ UNCHANGED <<cosmology, loader, loggers>>

RaArcsecToHms ==
    /\ op = "none"
    /\ \E x \in RaInputs :
           /\ op' = "ra_arcsec_to_hms"
           /\ args' = [ra_arcsec |-> x]
           /\ result' = ra_arcsec_to_hms(x)
           /\ UNCHANGED <<cosmology, loader, loggers>>

DecArcsecToDms ==
    /\ op = "none"
    /\ \E x \in DecInputs, negative_zero \in BOOLEAN :
           /\ negative_zero => x = 0
           /\ op' = "dec_arcsec_to_dms"
           /\ args' = [dec_arcsec |-> x, negative_zero |-> negative_zero]
           /\ result' = dec_arcsec_to_dms_float(x, negative_zero)
           /\ UNCHANGED <<cosmology, loader, loggers>>

ParseRaHms ==
    /\ op = "none"
    /\ \E s \in RaStringInputs :
           /\ op' = "parse_ra_hms"
           /\ args' = [ra_string |-> s]
           /\ result' = parse_ra_hms(s)
           /\ UNCHANGED <<cosmology, loader, loggers>>

SetupLogger ==
    /\ op = "none"
    /\ \E name \in LoggerNames, log_file \in LogFileInputs, level \in LevelInputs,
          console \in BOOLEAN, writable \in BOOLEAN :
           /\ op' = "setup_logger"
           /\ args' = [name |-> name, log_file |-> log_file, level |-> level,
                       console |-> console]
           /\ result' = setup_logger(loggers, name, log_file, level, console, writable).outcome
           /\ loggers' = setup_logger(loggers, name, log_file, level, console, writable).table
           /\ UNCHANGED <<cosmology, loader>>

\* A run of the source-model part of make_img.py.
MakeImgSourceModel ==
    /\ op = "none"
    /\ \E z \in MakeImgRedshifts, L \in MakeImgSizes, F1 \in MakeImgFluxes :
           /\ op' = "make_img_source_model"
           /\ args' = [z |-> z, L |-> L, F1 |-> F1]
           /\ result' = make_img_source_model(z, L, F1)
           /\ UNCHANGED <<cosmology, loader, loggers>>

\* A run of the point-source part of make_img.py.
MakeImgPointSources ==
    /\ op = "none"
    /\ \E draws \in DrawInputs, picked \in SamplePositions(20, 5) :
           /\ op' = "make_img_point_sources"
           /\ args' = [draws |-> draws, picked |-> picked]
           /\ result' = make_img_point_sources(draws, picked)
           /\ UNCHANGED <<cosmology, loader, loggers>>

ParseDecDms ==
    /\ op = "none"
    /\ \E s \in DecStringInputs :
           /\ op' = "parse_dec_dms"
           /\ args' = [dec_string |-> s]
           /\ result' = parse_dec_dms(s)
           /\ UNCHANGED <<cosmology, loader, loggers>>

ValidateCoordinateString ==
    /\ op = "none"
    /\ \E s \in CoordStringInputs, type \in CoordTypeInputs :
           /\ op' = "validate_coordinate_string"
           /\ args' = [coord_string |-> s, coord_type |-> type]
           /\ result' = validate_coordinate_string(s, type)
           /\ UNCHANGED <<cosmology, loader, loggers>>

\* parse_ra_hms(ra_arcsec_to_hms(x)): the decoder applied to the encoder's output.
RaRoundTrip ==
    /\ op = "none"
    /\ \E x \in RaInputs :
           /\ op' = "ra_round_trip"
           /\ args' = [ra_arcsec |-> x, encoded |-> ra_arcsec_to_hms(x)]
           /\ result' = IF Returned(ra_arcsec_to_hms(x))
                        THEN parse_ra_hms(ra_arcsec_to_hms(x).val)
                        ELSE ra_arcsec_to_hms(x)
           /\ UNCHANGED <<cosmology, loader, loggers>>

\* parse_dec_dms(dec_arcsec_to_dms(x)).
DecRoundTrip ==
    /\ op = "none"
    /\ \E x \in DecInputs :
           /\ op' = "dec_round_trip"
           /\ args' = [dec_arcsec |-> x, encoded |-> dec_arcsec_to_dms(x)]
           /\ result' = IF Returned(dec_arcsec_to_dms(x))
                        THEN parse_dec_dms(dec_arcsec_to_dms(x).val)
                        ELSE dec_arcsec_to_dms(x)
           /\ UNCHANGED <<cosmology, loader, loggers>>

\* loader = ConfigLoader(config_path): the name is bound when the
\* constructor returns, and left as it was when it raises.
NewConfigLoader ==
    /\ op = "none"
    /\ \E p \in ConfigPathInputs :
           /\ op' = "ConfigLoader"
           /\ args' = [config_path |-> p]
           /\ result' = ConfigLoader(p, Files)
           /\ loader' = IF Returned(ConfigLoader(p, Files)) THEN ConfigLoader(p, Files).val ELSE loader
           /\ UNCHANGED <<cosmology, loggers>>

\* loader.load_config(), which assigns loader.config.
LoadConfig ==
    /\ op = "none"
    /\ loader # NoLoader
    /\ \E files \in FileSystems :
           /\ op' = "load_config"
           /\ args' = <<>>
           /\ result' = load_config(loader, files).outcome
           /\ loader' = load_config(loader, files).self
           /\ UNCHANGED <<cosmology, loggers>>

\* loader.get(key, default).
Get ==
    /\ op = "none"
    /\ loader # NoLoader
    /\ \E k \in GetKeyInputs, d \in GetDefaultInputs :
           /\ op' = "get"
           /\ args' = [key |-> k, default |-> d]
           /\ result' = get(loader, k, d)
           /\ UNCHANGED <<cosmology, loader, loggers>>

\* The caller takes the outcome and goes on to its next call.
Continue ==
    /\ op # "none"
    /\ op' = "none"
    /\ args' = <<>>
    /\ result' = [kind |-> "none"]
    /\ UNCHANGED <<cosmology, loader, loggers>>

Next ==
    \/ NewConfigLoader
    \/ LoadConfig
    \/ Get
    \/ AngularDiameterDistance
    \/ CalculateFluxDensity
    \/ CalculateAngularSize
    \/ ValidateRedshifts
    \/ ValidateSpectralIndex
    \/ ValidateFluxDensity
    \/ CreateModelSky
    \/ RaArcsecToHms
    \/ DecArcsecToDms
    \/ ParseRaHms
    \/ ParseDecDms
    \/ ValidateCoordinateString
    \/ RaRoundTrip
    \/ DecRoundTrip
    \/ MakeImgSourceModel
    \/ Continue

Spec == Init /\ [][Next]_vars

\* A program that configures loggers, one call of setup_logger after
\* another.
LoggerNext ==
    \/ SetupLogger
    \/ Continue

LoggerSpec == Init /\ [][LoggerNext]_vars

\* Runs of the point-source part of the script, one after another.
PointSourceNext ==
    \/ MakeImgPointSources
    \/ Continue

PointSourceSpec == Init /\ [][PointSourceNext]_vars

----------------------------------------------------------------------------
(* The claims.                                                             *)

\* Cosmology parameters the claims call valid: h0 > 0 and 0 < omega_m < 1.
ValidParameters(c) == c.h0 > 0 /\ 0 < c.omega_m /\ c.omega_m < Milli

\* C1: for every valid (h0, omega_m) and every redshift 0 < z <= 10, angular_diameter_distance(z) returns
\* (raises nothing) the closed-form value with omega_l = 1 - omega_m, and
\* that value is strictly positive.
C1_DistanceIsClosedForm ==
    (op = "angular_diameter_distance" /\ ValidParameters(cosmology)
     /\ 0 < args.redshift /\ args.redshift <= MAX_REDSHIFT)
    => /\ Returned(result)
       /\ result = ClosedFormDistance(cosmology.h0, cosmology.omega_m,
                                   Milli - cosmology.omega_m, args.redshift)
       /\ result.val > 0

\* C2: calculate_flux_density(F, z, z, alpha) returns F for every z > 0 and
\* every alpha in [-5, 0], raising nothing.
C2_ReferenceRedshiftIdentity ==
    (op = "calculate_flux_density" /\ ValidParameters(cosmology)
     /\ args.z_ref = args.z_target /\ args.z_ref > 0
     /\ MIN_SPECTRAL_INDEX <= args.spectral_index /\ args.spectral_index <= MAX_SPECTRAL_INDEX)
    => result = Return(args.flux_ref)

\* C3: with the reference redshift 0.05, a positive reference flux and
\* alpha <= 0, the flux returned for a target of the default list is
\* strictly below the flux returned for every smaller target of the list.
C3_FluxFallsWithRedshift ==
    (op = "calculate_flux_density" /\ ValidParameters(cosmology)
     /\ args.z_ref = DEFAULT_REDSHIFTS[1] /\ args.flux_ref > 0
     /\ args.spectral_index <= 0 /\ args.z_target \in SeqRange(DEFAULT_REDSHIFTS))
    => /\ Returned(result)
       /\ \A z1 \in SeqRange(DEFAULT_REDSHIFTS) :
              z1 < args.z_target =>
                  LET nearer == calculate_flux_density(cosmology, args.flux_ref, args.z_ref,
                                                       z1, args.spectral_index)
                  IN  Returned(nearer) /\ result.val < nearer.val

\* C4: angular_diameter_distance(0) returns exactly 0.0 whatever h0 and
\* omega_m the calculator was constructed with: nothing of the general
\* formula (attribute reads, division, square root) is evaluated.
C4_ZeroRedshiftGivesZero ==
    (op = "angular_diameter_distance" /\ args.redshift = 0) => result = Return(0)

\* A call at z = 0 on a calculator whose general formula would divide by zero.
C4_Witness ==
    /\ op = "angular_diameter_distance"
    /\ args.redshift = 0
    /\ cosmology.omega_m = 0
    /\ result = Return(0)

\* The value v = n / d (hours or degrees, d = 360000: n counts hundredths of
\* a second) is within one hundredth of a second of x ticks, unitTicks ticks
\* to the second.  k is what v exceeds the whole seconds of x by.
WithinHundredth(v, x, unitTicks) ==
    LET whole == x \div unitTicks
        rest == x % unitTicks
        k == v.n - 100 * whole
    IN  /\ v.d = 360000
        /\ -1 <= k /\ k <= 101
        /\ k * unitTicks - 100 * rest <= unitTicks
        /\ 100 * rest - k * unitTicks <= unitTicks

\* C5: for every ra_arcsec >= 0, parse_ra_hms(ra_arcsec_to_hms(ra_arcsec))
\* raises nothing and returns decimal hours within 0.01/3600 hours of
\* ra_arcsec / (3600 * 15).  Stated for the right ascensions below 24 hours.
C5_RaRoundTrip ==
    (op = "ra_round_trip" /\ 0 <= args.ra_arcsec /\ args.ra_arcsec < 24 * TicksPerRaHour)
    => Returned(result) /\ WithinHundredth(result.val, args.ra_arcsec, TicksPerRaSecond)

\* The minutes and seconds fields of an encoder's output.
EmittedFields(s) ==
    LET unsigned == IF s[1] \in {"+", "-"} THEN Tail(s) ELSE s
        parts == Split(RemoveChar(ReplaceChar(ReplaceChar(ReplaceChar(unsigned, "h", ":"),
                                                          "d", ":"), "m", ":"), "s"), ":")
    IN  [minutes |-> ParseFloat(parts[2]).val, seconds |-> ParseFloat(parts[3]).val]

\* C6: no string emitted by ra_arcsec_to_hms or dec_arcsec_to_dms has a
\* minutes field of 60 or a seconds field of 60.00: minutes are in [0, 59]
\* and seconds in [0.00, 59.99].
C6_NoSixtyEmitted ==
    (op \in {"ra_arcsec_to_hms", "dec_arcsec_to_dms"} /\ Returned(result))
    => LET f == EmittedFields(result.val)
       IN  /\ RatLeq(RatInt(0), f.minutes) /\ RatLess(f.minutes, RatInt(60))
           /\ RatLeq(RatInt(0), f.seconds) /\ RatLess(f.seconds, RatInt(60))

\* C7: for every dec_arcsec, parse_dec_dms(dec_arcsec_to_dms(dec_arcsec))
\* raises nothing, returns decimal degrees within 0.01/3600 of
\* dec_arcsec / 3600, and never returns a positive value for a negative
\* input or a negative value for a positive one.
C7_DecRoundTrip ==
    (op = "dec_round_trip")
    => /\ Returned(result)
       /\ IF args.dec_arcsec < 0
          THEN /\ result.val.n <= 0
               /\ WithinHundredth([n |-> -result.val.n, d |-> result.val.d], -args.dec_arcsec, TicksPerArcsec)
          ELSE /\ result.val.n >= 0
               /\ WithinHundredth(result.val, args.dec_arcsec, TicksPerArcsec)

\* C8: create_model_sky fails with a validation error (ValueError) when
\* spectral_index is outside [-5, 0] or reference_flux_jy is negative.
\* Stated for calls made where the CASA toolkit can be imported.
C8_ModelSkyRejectsBadParameters ==
    (op = "create_model_sky" /\ args.casa_available
     /\ (\/ args.spectral_index < MIN_SPECTRAL_INDEX
         \/ args.spectral_index > MAX_SPECTRAL_INDEX
         \/ args.reference_flux_jy < 0))
    => Raised(result, "ValueError")

\* A redshift list as C9 describes the accepted ones: a non-empty list whose
\* every entry is an int or a float (a bool is an int to isinstance) with
\* 0 <= z <= 10.
WellFormedRedshifts(r) ==
    /\ r.t = "list"
    /\ Len(r.items) > 0
    /\ \A i \in 1..Len(r.items) :
           /\ r.items[i].t \in {"int", "float", "bool"}
           /\ ~r.items[i].nan
           /\ 0 <= r.items[i].v
           /\ r.items[i].v <= 10 * Milli

\* C9: validate_redshifts returns True exactly for the well-formed lists and
\* raises ValueError for every other argument, wherever the offending entry
\* sits.
C9_ValidateRedshiftsExact ==
    (op = "validate_redshifts")
    => IF WellFormedRedshifts(args.redshifts)
       THEN result = Return(TRUE)
       ELSE Raised(result, "ValueError")

\* A list rejected for its last entry alone, the entries before it being valid.
C9_Witness ==
    /\ op = "validate_redshifts"
    /\ args.redshifts.t = "list"
    /\ Len(args.redshifts.items) = MaxLen
    /\ WellFormedRedshifts(PyList(SubSeq(args.redshifts.items, 1, MaxLen - 1)))
    /\ args.redshifts.items[MaxLen].v > 10 * Milli
    /\ Raised(result, "ValueError")

\* C10: validate_spectral_index returns True exactly when alpha is an int or
\* a float with -5 <= alpha <= 0, and raises ValueError otherwise.
C10_ValidateSpectralIndexExact ==
    (op = "validate_spectral_index")
    => IF /\ args.alpha.t \in {"int", "float", "bool"}
          /\ ~args.alpha.nan
          /\ -5 * Milli <= args.alpha.v
          /\ args.alpha.v <= 0
       THEN result = Return(TRUE)
       ELSE Raised(result, "ValueError")

\* The upper bound itself is accepted.
C10_Witness ==
    /\ op = "validate_spectral_index"
    /\ args.alpha = PyFloat(0)
    /\ result = Return(TRUE)

\* C11: validate_flux_density returns True exactly when flux_jy is an int or
\* a float with 0 <= flux_jy <= 1e6, and raises ValueError otherwise: for
\* every negative flux and every flux above 1e6 in particular.
C11_ValidateFluxDensityExact ==
    (op = "validate_flux_density")
    => IF /\ args.flux_jy.t \in {"int", "float", "bool"}
          /\ ~args.flux_jy.nan
          /\ 0 <= args.flux_jy.v
          /\ args.flux_jy.v <= (10 ^ 6) * Milli
       THEN result = Return(TRUE)
       ELSE Raised(result, "ValueError")

\* A negative flux is rejected.
C11_Witness ==
    /\ op = "validate_flux_density"
    /\ args.flux_jy.t = "float"
    /\ args.flux_jy.v < 0
    /\ Raised(result, "ValueError")

\* C12: when create_model_sky completes, it returns exactly one output per
\* input redshift, in the order of the input: the i-th output is
\* modelsky_<redshifts[i]>.im, repeated redshifts giving repeated outputs.
C12_OneOutputPerRedshiftInOrder ==
    (op = "create_model_sky" /\ Returned(result))
    => /\ Len(result.val) = Len(args.redshifts.items)
       /\ \A i \in 1..Len(result.val) : result.val[i] = ImageName(args.redshifts.items[i])

\* A completed call on a list of MaxLen redshifts whose first two outputs
\* differ and whose first redshift is repeated.
C12_Witness ==
    /\ op = "create_model_sky"
    /\ Returned(result)
    /\ Len(args.redshifts.items) = MaxLen
    /\ args.redshifts.items[1] # args.redshifts.items[2]
    /\ args.redshifts.items[1] = args.redshifts.items[MaxLen]
    /\ Len(result.val) = MaxLen
    /\ result.val[1] # result.val[2]

\* Processing the k-th redshift of a call fails: one of the two calculator
\* calls of the loop body raises.
RedshiftFails(a, k) ==
    \/ ~Returned(calculate_flux_density(ImageMakerCosmology, a.reference_flux_jy,
                                        a.redshifts.items[1].v, a.redshifts.items[k].v,
                                        a.spectral_index))
    \/ ~Returned(calculate_angular_size(ImageMakerCosmology, a.linear_size_mpc,
                                        a.redshifts.items[k].v))

\* C13: create_model_sky fails fast with no partial result.  An invalid
\* redshift list raises ValueError whether or not the toolkit can be imported
\* and whatever the entries before the offending one; a valid list without
\* the toolkit raises ImportError; and when processing some redshift fails,
\* the call raises: it returns no list of the outputs built before.
C13_FailFastNoPartialResult ==
    (op = "create_model_sky")
    => IF ~WellFormedRedshifts(args.redshifts) THEN Raised(result, "ValueError")
       ELSE IF ~args.casa_available THEN Raised(result, "ImportError")
       ELSE (\E k \in 1..Len(args.redshifts.items) : RedshiftFails(args, k))
            => result.kind = "raise"

\* A call that fails at its last redshift after the ones before it were
\* processed.
C13_Witness ==
    /\ op = "create_model_sky"
    /\ args.casa_available
    /\ WellFormedRedshifts(args.redshifts)
    /\ Len(args.redshifts.items) = MaxLen
    /\ \A k \in 1..(MaxLen - 1) : ~RedshiftFails(args, k)
    /\ RedshiftFails(args, MaxLen)
    /\ result.kind = "raise"

\* The entry of the file system is an existing, non-empty regular file
\* holding the YAML document doc.
HoldsDocument(entry, doc) ==
    /\ entry.exists
    /\ entry.is_file
    /\ entry.st_size > 0
    /\ entry.content.parses
    /\ entry.content.doc = doc

\* C14: constructing ConfigLoader with the path of an existing, non-empty
\* file holding the valid default configuration raises nothing, whatever the
\* file is called (sos_config_default.yaml in the example), and afterwards
\* get("simulation.redshifts"), get("simulation.spectral_index") and
\* get("image.cell_size") return the values stored in the file.
C14_ConstructionLoadsValidFile ==
    (/\ op = "ConfigLoader"
     /\ args.config_path.t = "str"
     /\ args.config_path.s \in DOMAIN Files
     /\ HoldsDocument(Files[args.config_path.s], create_default_config))
    => /\ Returned(result)
       /\ get(result.val, Dotted(Key_simulation, Key_redshifts), PyNone)
              = Return(create_default_config.items[Key_simulation].items[Key_redshifts])
       /\ get(result.val, Dotted(Key_simulation, Key_spectral_index), PyNone)
              = Return(create_default_config.items[Key_simulation].items[Key_spectral_index])
       /\ get(result.val, Dotted(Key_image, Key_cell_size), PyNone)
              = Return(create_default_config.items[Key_image].items[Key_cell_size])

\* Every segment of keys from the i-th on names an entry of a mapping,
\* starting at value; and the value the segments lead to.
RECURSIVE SegmentsExist(_, _, _)
SegmentsExist(value, keys, i) ==
    \/ i > Len(keys)
    \/ /\ value.t = "dict"
       /\ keys[i] \in DOMAIN value.items
       /\ SegmentsExist(value.items[keys[i]], keys, i + 1)

RECURSIVE StoredAt(_, _, _)
StoredAt(value, keys, i) ==
    IF i > Len(keys) THEN value ELSE StoredAt(value.items[keys[i]], keys, i + 1)

\* C15: get(key, default) returns the value stored at the nested path named
\* by the dot-separated segments of key when every segment exists, and
\* default when a segment is missing or an intermediate value is not a
\* mapping; it raises nothing, and a stored falsy value is returned as
\* stored.
C15_DottedKeyLookup ==
    (op = "get")
    => LET keys == Split(args.key, ".")
       IN  IF SegmentsExist(loader.config, keys, 1)
           THEN result = Return(StoredAt(loader.config, keys, 1))
           ELSE result = Return(args.default)

RECURSIVE DigitRunEnd(_, _)
DigitRunEnd(s, i) == IF i <= Len(s) /\ s[i] \in DigitSet THEN DigitRunEnd(s, i + 1) ELSE i

\* s read by the grammar  digits sep1 digits sep2 digits [. digits] [s],
\* sep1 and sep2 being characters of firstSeps and secondSeps and the last
\* letter being optional or not: whether all of s matches, and the three
\* numerals.
SexagesimalGrammar(s, firstSeps, secondSeps, lastLetterOptional) ==
    LET a == DigitRunEnd(s, 1)
        b == DigitRunEnd(s, a + 1)
        c == DigitRunEnd(s, b + 1)
        d == IF CharAt(s, c) = "." THEN DigitRunEnd(s, c + 1) ELSE c
        e == IF CharAt(s, d) = "s" THEN d + 1 ELSE d
    IN  [matches |-> /\ a > 1 /\ CharAt(s, a) \in firstSeps
                     /\ b > a + 1 /\ CharAt(s, b) \in secondSeps
                     /\ c > b + 1
                     /\ (d = c \/ d > c + 1)
                     /\ (lastLetterOptional \/ e = d + 1)
                     /\ e = Len(s) + 1,
         first |-> SubSeq(s, 1, a - 1),
         second |-> SubSeq(s, a + 1, b - 1),
         third |-> SubSeq(s, b + 1, d - 1)]

\* The number a numeral digits [. digits] denotes.
NumeralValue(numeral) ==
    LET dot == DigitRunEnd(numeral, 1)
    IN  [n |-> DigitsValue(SelectSeq(numeral, LAMBDA ch : ch # ".")),
         d |-> IF dot > Len(numeral) THEN 1 ELSE 10 ^ (Len(numeral) - dot)]

\* The grammar HH [h or :] MM [m or :] SS [.frac] [s] of right ascensions.
RaGrammar(s) == SexagesimalGrammar(s, {"h", ":"}, {"m", ":"}, TRUE)

\* C17: parse_ra_hms raises ValueError whenever the hours are outside
\* [0, 24), the minutes outside [0, 60) or the seconds outside [0, 60); for
\* every string it accepts it returns hours + minutes/60 + seconds/3600,
\* and every value it returns lies in [0, 24).
C17_RaParserRange ==
    (op = "parse_ra_hms")
    => /\ Returned(result) => RatLeq(RatInt(0), result.val) /\ RatLess(result.val, RatInt(24))
       /\ RaGrammar(args.ra_string).matches
          => LET hours == NumeralValue(RaGrammar(args.ra_string).first)
                 minutes == NumeralValue(RaGrammar(args.ra_string).second)
                 seconds == NumeralValue(RaGrammar(args.ra_string).third)
             IN  IF /\ RatLess(hours, RatInt(24))
                    /\ RatLess(minutes, RatInt(60))
                    /\ RatLess(seconds, RatInt(60))
                 THEN result = Return(Sexagesimal(hours, minutes, seconds))
                 ELSE Raised(result, "ValueError")

\* C18: parse_ra_hms raises ValueError for every string that does not match
\* the grammar HH [h or :] MM [m or :] SS [.frac] [s].
C18_RaParserRejectsMalformed ==
    (op = "parse_ra_hms" /\ ~RaGrammar(args.ra_string).matches)
    => Raised(result, "ValueError")

\* The strings of the shape  digits h digits m digits [. digits] s  (RA) and
\* [sign] digits d digits m digits [. digits] s  (DEC).
RaShape(s) == SexagesimalGrammar(s, {"h"}, {"m"}, FALSE).matches

DecShape(s) ==
    SexagesimalGrammar(IF CharAt(s, 1) \in {"+", "-"} THEN Tail(s) ELSE s,
                       {"d"}, {"m"}, FALSE).matches

\* C19: validate_coordinate_string raises ValueError for every string that
\* holds none of the unit letters h, d, m, s, and it returns True only for
\* strings of the RA shape (type ra) or of the DEC shape (type dec).
C19_CoordinateStringShape ==
    (op = "validate_coordinate_string")
    => /\ SeqRange(args.coord_string) \cap {"h", "d", "m", "s"} = {}
          => Raised(result, "ValueError")
       /\ Returned(result)
          => /\ result.val = TRUE
             /\ \/ Lower(args.coord_type) = <<"r", "a">> /\ RaShape(args.coord_string)
                \/ Lower(args.coord_type) = <<"d", "e", "c">> /\ DecShape(args.coord_string)

\* Whether s starts with prefix.
StartsWith(s, prefix) == Len(prefix) <= Len(s) /\ SubSeq(s, 1, Len(prefix)) = prefix

\* C20: dec_arcsec_to_dms attaches the sign to the whole string and never
\* to a component.  It returns a string whose first character is '-' when
\* dec_arcsec < 0 and '+' otherwise, followed by degrees, arcminutes and
\* arcseconds that are numerals without a sign of their own; 0 gives
\* "+0d0m...", -72000 gives "-20d..." and -73800 gives "-20d30m...".
C20_DecSignOnWholeString ==
    (op = "dec_arcsec_to_dms")
    => /\ Returned(result)
       /\ result.val[1] = (IF args.dec_arcsec < 0 THEN "-" ELSE "+")
       /\ SexagesimalGrammar(Tail(result.val), {"d"}, {"m"}, FALSE).matches
       /\ args.dec_arcsec = 0 => StartsWith(result.val, <<"+", "0", "d", "0", "m">>)
       /\ args.dec_arcsec = -72000 * TicksPerArcsec
          => StartsWith(result.val, <<"-", "2", "0", "d">>)
       /\ args.dec_arcsec = -73800 * TicksPerArcsec
          => StartsWith(result.val, <<"-", "2", "0", "d", "3", "0", "m">>)

\* The grammar DD [d or :] MM [m or :] SS [.frac] [s] of declinations
\* without their sign.
DecBodyGrammar(s) == SexagesimalGrammar(s, {"d", ":"}, {"m", ":"}, TRUE)

\* A valid unsigned body: a string of that grammar that parse_dec_dms accepts.
ValidDecBody(s) == DecBodyGrammar(s).matches /\ Returned(parse_dec_dms(s))

\* The number of sign characters a string starts with.
RECURSIVE LeadingSigns(_)
LeadingSigns(s) ==
    IF s # <<>> /\ Head(s) \in {"+", "-"} THEN 1 + LeadingSigns(Tail(s)) ELSE 0

\* C21: in parse_dec_dms the leading sign is optional and an absent sign
\* means positive.  For every valid unsigned body X, parse_dec_dms(X) is
\* >= 0, equals parse_dec_dms('+' + X) and is the negation of
\* parse_dec_dms('-' + X); a string that starts with more than one sign is
\* rejected with ValueError.
C21_DecSignOptional ==
    (op = "parse_dec_dms")
    => /\ ValidDecBody(args.dec_string)
          => /\ Returned(result)
             /\ result.val.n >= 0
             /\ parse_dec_dms(<<"+">> \o args.dec_string) = result
             /\ parse_dec_dms(<<"-">> \o args.dec_string)
                = Return(SignedRat(TRUE, result.val))
       /\ LeadingSigns(args.dec_string) > 1 => Raised(result, "ValueError")

\* C22: calculate_flux_density returns flux_ref itself, raising nothing,
\* whenever z_ref = 0 or z_target = 0, for every flux_ref and spectral
\* index; so for a redshift list whose first element is 0 the flux that
\* create_model_sky computes for every redshift is the reference flux.
C22_FluxUnchangedAtZeroDistance ==
    /\ (op = "calculate_flux_density" /\ (args.z_ref = 0 \/ args.z_target = 0))
       => result = Return(args.flux_ref)
    /\ (op = "create_model_sky" /\ WellFormedRedshifts(args.redshifts)
        /\ args.redshifts.items[1].v = 0)
       => \A i \in 1..Len(args.redshifts.items) :
              calculate_flux_density(ImageMakerCosmology, args.reference_flux_jy,
                                     args.redshifts.items[1].v, args.redshifts.items[i].v,
                                     args.spectral_index)
              = Return(args.reference_flux_jy)

\* C23: calculate_angular_size(L, 0) returns 0.0 for every linear size L,
\* and for z > 0 (valid cosmology parameters) it returns
\* (L / D_A(z)) * ARCMIN_PER_RADIAN, D_A(z) being what
\* angular_diameter_distance returns for z.
C23_AngularSizeAtZeroAndBeyond ==
    (op = "calculate_angular_size")
    => /\ args.redshift = 0 => result = Return(0)
       /\ (args.redshift > 0 /\ ValidParameters(cosmology))
          => LET d_a == angular_diameter_distance(cosmology, args.redshift)
             IN  /\ Returned(d_a)
                 /\ result = Return(FixDiv(FixMul(ARCMIN_PER_RADIAN, args.linear_size_mpc),
                                           d_a.val))

C25_SameDistanceAsScript ==
    (/\ op = "angular_diameter_distance"
     /\ cosmology = CosmologyCalculator(HUBBLE_CONSTANT, MATTER_DENSITY_PARAMETER)
     /\ args.redshift > 0)
    => result = aDD(args.redshift)

CosmologyCalls == {"angular_diameter_distance", "calculate_angular_size", "calculate_flux_density"}

\* The outcome of the call recorded in (o, a) when it is made on self.
CosmologyCallOutcome(self, o, a) ==
    IF o = "angular_diameter_distance" THEN angular_diameter_distance(self, a.redshift)
    ELSE IF o = "calculate_angular_size"
         THEN calculate_angular_size(self, a.linear_size_mpc, a.redshift)
         ELSE calculate_flux_density(self, a.flux_ref, a.z_ref, a.z_target, a.spectral_index)

\* C26: a call of angular_diameter_distance, calculate_angular_size or
\* calculate_flux_density leaves the calculator with exactly the attributes
\* and values it had (h0 and omega_m as constructed, nothing added), and so
\* does the caller's return from it; hence the same call made again on the
\* calculator as it is after the call gives the outcome it just gave.
C26_CalculatorImmutable ==
    [][ /\ (op' \in CosmologyCalls \/ op \in CosmologyCalls) => cosmology' = cosmology
        /\ op' \in CosmologyCalls
           => /\ DOMAIN cosmology' = {"h0", "omega_m"}
              /\ CosmologyCallOutcome(cosmology', op', args') = result'
      ]_vars

\* A call that went as far as the distance formula (z > 0) has acted on the
\* default calculator, which still has its two attributes as constructed.
C26_Witness ==
    /\ op \in CosmologyCalls
    /\ "redshift" \in DOMAIN args => args.redshift > 0
    /\ "z_ref" \in DOMAIN args => args.z_ref > 0 /\ args.z_target > 0
    /\ ~Returned(result)
    /\ cosmology = CosmologyCalculator(HUBBLE_CONSTANT, MATTER_DENSITY_PARAMETER)

HandlersOfKind(logger, kind) ==
    {i \in 1..Len(logger.handlers) : logger.handlers[i].kind = kind}

\* C27: whatever calls of setup_logger were made, a logger has at most one
\* console handler and at most one file handler; a call for a logger that
\* already has a handler returns that logger and leaves its handlers as
\* they are (a log_file it passes is not attached), every call sets the
\* level of its logger and touches no other logger, and nothing but a call
\* changes a logger.
C27_NoDuplicateHandlers ==
    [][ /\ \A name \in LoggerNames :
               /\ Cardinality(HandlersOfKind(loggers'[name], "console")) <= 1
               /\ Cardinality(HandlersOfKind(loggers'[name], "file")) <= 1
        /\ op' = "setup_logger"
           => /\ loggers[args'.name].handlers # <<>>
                 => /\ result' = Return(args'.name)
                    /\ loggers'[args'.name].handlers = loggers[args'.name].handlers
              /\ loggers'[args'.name].level = args'.level
              /\ \A name \in LoggerNames \ {args'.name} : loggers'[name] = loggers[name]
        /\ op' # "setup_logger" => loggers' = loggers
      ]_vars

\* A later call has acted: it passed a log file and a level to a logger
\* that had only a console handler, of another level; the logger has the
\* new level and still that one handler.
C27_Witness ==
    /\ op = "setup_logger"
    /\ Truthy(args.log_file)
    /\ args.console
    /\ Returned(result)
    /\ loggers[args.name].handlers = <<ConsoleHandler(20)>>
    /\ args.level = 10
    /\ loggers[args.name].level = 10

\* C28: a call of load_config that raises leaves the loader as it was: its
\* config, and so what to_dict returns, is what it was before the call.
C28_LoadConfigAtomic ==
    [][ (op' = "load_config" /\ ~Returned(result'))
        => /\ loader' = loader
           /\ to_dict(loader') = to_dict(loader)
      ]_vars

\* No position occurs twice in picked.
Injective(picked) ==
    \A i, j \in 1..Len(picked) : picked[i] = picked[j] => i = j

\* C29: a run of the point-source part has NUM_RANDOM_POINT_SOURCES
\* offsets, each with dRA in 1..46 and dDEC = 15*(47 - dRA) arcsec, so that
\* 15 <= dDEC <= 690 and dRA + dDEC/15 = 47; the candidates are these
\* offsets with the four sign combinations, 20 in all, quadrant after
\* quadrant; and the 5 selected are candidates at 5 different positions of
\* the candidate list.
C29_PointSourceOffsets ==
    (op = "make_img_point_sources")
    => /\ Returned(result)
       /\ Len(result.val.dRA) = NUM_RANDOM_POINT_SOURCES
       /\ Len(result.val.dDEC) = NUM_RANDOM_POINT_SOURCES
       /\ \A i \in 1..NUM_RANDOM_POINT_SOURCES :
              /\ result.val.dRA[i] \in 1..(RANDOM_SOURCE_REGION_SIZE - 1)
              /\ result.val.dDEC[i] = 15 * (RANDOM_SOURCE_REGION_SIZE - result.val.dRA[i])
              /\ 15 <= result.val.dDEC[i] /\ result.val.dDEC[i] <= 690
              /\ 15 * result.val.dRA[i] + result.val.dDEC[i] = 15 * RANDOM_SOURCE_REGION_SIZE
       /\ Len(result.val.posns) = 4 * NUM_RANDOM_POINT_SOURCES
       /\ \A i \in 1..NUM_RANDOM_POINT_SOURCES :
              LET a == result.val.dRA[i]
                  b == result.val.dDEC[i]
              IN  /\ result.val.posns[i] = <<a, b>>
                  /\ result.val.posns[i + NUM_RANDOM_POINT_SOURCES] = <<a, -b>>
                  /\ result.val.posns[i + 2 * NUM_RANDOM_POINT_SOURCES] = <<-a, -b>>
                  /\ result.val.posns[i + 3 * NUM_RANDOM_POINT_SOURCES] = <<-a, b>>
       /\ Len(result.val.coords) = NUM_RANDOM_POINT_SOURCES
       /\ Injective(args.picked)
       /\ \A i \in 1..NUM_RANDOM_POINT_SOURCES :
              /\ args.picked[i] \in 1..Len(result.val.posns)
              /\ result.val.coords[i] = result.val.posns[args.picked[i]]

\* A run whose draws hold the least and the greatest value and one of them
\* twice, and whose sample, not in list order, takes candidates of more
\* than one quadrant.
C29_Witness ==
    /\ op = "make_img_point_sources"
    /\ Returned(result)
    /\ \E i, j, k \in 1..5 :
           /\ result.val.dRA[i] = 1 /\ result.val.dDEC[i] = 690
           /\ result.val.dRA[j] = 46 /\ result.val.dDEC[j] = 15
           /\ k # j /\ result.val.dRA[k] = 46
    /\ args.picked[1] > args.picked[2]
    /\ \E i, j \in 1..5 : result.val.coords[i][1] > 0 /\ result.val.coords[j][1] < 0

\* C30: a string that validate_coordinate_string accepts as "ra" is parsed
\* by parse_ra_hms without an exception, and one it accepts as "dec" is
\* parsed by parse_dec_dms without an exception.
C30_ValidatedStringsParse ==
    (op = "validate_coordinate_string" /\ result = Return(TRUE))
    => IF Lower(args.coord_type) = <<"r", "a">>
       THEN Returned(parse_ra_hms(args.coord_string))
       ELSE Returned(parse_dec_dms(args.coord_string))

====
